---- MODULE Spec2Model ----
(***************************************************************************)
(* Model of the loyalty rule engine (backend/rule_engine.py), of the rule  *)
(* definition store it works on (backend/rule_models.py,                   *)
(* backend/rule_schemas.py) and of the event streaming system that feeds   *)
(* it (backend/event_streaming.py, backend/event_processor_daemon.py).     *)
(*                                                                         *)
(* Python values are modelled as one-field records whose field name is the *)
(* type tag: [int |-> 3], [flt |-> 150], [str |-> <<"a","b">>],            *)
(* [none |-> TRUE], [list |-> <<...>>].  A float is modelled by its        *)
(* integral value.  Python dicts are TLA+ records; "key in d" is           *)
(* key \in DOMAIN d.                                                       *)
(***************************************************************************)
EXTENDS Integers, Sequences, FiniteSets, TLC

VARIABLES rules,        \* table "rules": sequence of rows, a rule's id is its index
          versions,     \* table "rule_versions": sequence of rows, in insertion order
          executions,   \* table "rule_executions": sequence of rows, in insertion order
          now,          \* the database clock (func.now(), datetime.utcnow())
          ret,          \* what the last completed operation returned or raised
          archived,     \* history: the ids of the rules that delete_rule has archived
          stream,       \* the Redis stream "loyalty:events": sequence of entries, an entry's id is its index
          last_delivered, \* the consumer group's last-delivered id
          pending,      \* the consumer group's pending entries, each with the consumer that owns it
          batch,        \* per consumer: the events yielded by consume_events and not yet handled
          daemon,       \* per consumer: the state of its EventProcessorDaemon
          celery,       \* the Celery tasks, in the order they were first enqueued
          invoked,      \* history: the event_id of every call of process_single_event
          updates       \* per request: the update_rule call it is running, with the Rule object of its session

\* the state of the event streaming system (backend/event_streaming.py)
streaming == <<stream, last_delivered, pending, batch, daemon, celery, invoked>>

vars == <<rules, versions, executions, now, ret, archived, streaming, updates>>

----------------------------------------------------------------------------
(* Bounds of the model                                                     *)

MaxRules == 2
MaxVersion == 2
MaxExecutions == 2
MaxStream == 2
MaxTasks == 2

----------------------------------------------------------------------------
(* Python values                                                           *)

VNone == [none |-> TRUE]
VInt(n) == [int |-> n]
VFlt(n) == [flt |-> n]
VStr(s) == [str |-> s]
VList(l) == [list |-> l]

IsNone(v) == "none" \in DOMAIN v
IsInt(v) == "int" \in DOMAIN v
IsFlt(v) == "flt" \in DOMAIN v
IsStr(v) == "str" \in DOMAIN v
IsList(v) == "list" \in DOMAIN v
IsNum(v) == IsInt(v) \/ IsFlt(v)
NumOf(v) == IF IsInt(v) THEN v.int ELSE v.flt
\* a Python dict is a record that carries none of the value tags
IsDict(v) == DOMAIN v \cap {"none", "int", "flt", "str", "list"} = {}

\* the outcome of a call that may raise
Ok(v) == [raised |-> FALSE, val |-> v]
Raise(msg) == [raised |-> TRUE, error |-> msg]

\* F applied to the value of v, which is computed once
Bind(v, F(_)) == CHOOSE r \in {F(x) : x \in {v}} : TRUE

\* d.get(key, default) on a dict d
Get(d, key, default) == IF key \in DOMAIN d THEN d[key] ELSE default

AttributeErrorGet == "AttributeError: object has no attribute 'get'"

----------------------------------------------------------------------------
(* Python strings: sequences of one-character strings                      *)

UpperChars == <<"A","B","C","D","E","F","G","H","I","J","K","L","M","N","O","P","Q","R","S","T","U","V","W","X","Y","Z">>
LowerChars == <<"a","b","c","d","e","f","g","h","i","j","k","l","m","n","o","p","q","r","s","t","u","v","w","x","y","z">>
DigitChars == <<"0","1","2","3","4","5","6","7","8","9">>
\* the characters of the model in code point order
Ascii == <<" ","'",",","-",".">> \o DigitChars \o <<"@">> \o UpperChars \o <<"[","]","_">> \o LowerChars

IndexOf(seq, c) == CHOOSE i \in 1..Len(seq) : seq[i] = c
Occurs(seq, c) == \E i \in 1..Len(seq) : seq[i] = c

\* str.lower()
LowerChar(c) == IF Occurs(UpperChars, c) THEN LowerChars[IndexOf(UpperChars, c)] ELSE c
lower(s) == [i \in 1..Len(s) |-> LowerChar(s[i])]

\* x in y, y.startswith(x), y.endswith(x) on strings
IsSubstr(x, y) == \E i \in 0..(Len(y) - Len(x)) : SubSeq(y, i + 1, i + Len(x)) = x
startswith(y, x) == Len(x) <= Len(y) /\ SubSeq(y, 1, Len(x)) = x
endswith(y, x) == Len(x) <= Len(y) /\ SubSeq(y, Len(y) - Len(x) + 1, Len(y)) = x

\* x < y on strings: lexicographic by code point
RECURSIVE StrLess(_, _)
StrLess(x, y) ==
  IF y = <<>> THEN FALSE
  ELSE IF x = <<>> THEN TRUE
  ELSE IF Head(x) = Head(y) THEN StrLess(Tail(x), Tail(y))
  ELSE IndexOf(Ascii, Head(x)) < IndexOf(Ascii, Head(y))

RECURSIVE NatStr(_)
NatStr(n) == IF n < 10 THEN <<DigitChars[n + 1]>> ELSE NatStr(n \div 10) \o <<DigitChars[(n % 10) + 1]>>
IntStr(n) == IF n < 0 THEN <<"-">> \o NatStr(-n) ELSE NatStr(n)

IsDigits(s) == Len(s) > 0 /\ \A i \in 1..Len(s) : Occurs(DigitChars, s[i])
RECURSIVE ParseNat(_)
ParseNat(s) == IF s = <<>> THEN 0 ELSE ParseNat(SubSeq(s, 1, Len(s) - 1)) * 10 + (IndexOf(DigitChars, s[Len(s)]) - 1)

\* repr(v) of a list element and str(v); a float with integral value n prints as "n.0"
repr(v) ==
  IF IsStr(v) THEN <<"'">> \o v.str \o <<"'">>
  ELSE IF IsInt(v) THEN IntStr(v.int)
  ELSE IF IsFlt(v) THEN IntStr(v.flt) \o <<".", "0">>
  ELSE <<"N", "o", "n", "e">>
RECURSIVE JoinRepr(_)
JoinRepr(l) == IF l = <<>> THEN <<>> ELSE IF Len(l) = 1 THEN repr(l[1]) ELSE repr(l[1]) \o <<",", " ">> \o JoinRepr(Tail(l))
str(v) ==
  IF IsStr(v) THEN v.str
  ELSE IF IsList(v) THEN <<"[">> \o JoinRepr(v.list) \o <<"]">>
  ELSE repr(v)

\* float(v): numbers and numeric strings convert, anything else raises.
\* Numeric strings of the model have an all-zero fraction ("150.00").
float(v) ==
  IF IsNum(v) THEN Ok(VFlt(NumOf(v)))
  ELSE IF IsStr(v) THEN
    LET s == v.str
        dots == {i \in 1..Len(s) : s[i] = "."}
    IN IF dots = {} THEN (IF IsDigits(s) THEN Ok(VFlt(ParseNat(s))) ELSE Raise("ValueError: could not convert string to float"))
       ELSE LET d == CHOOSE i \in dots : TRUE
                ip == SubSeq(s, 1, d - 1)
                fp == SubSeq(s, d + 1, Len(s))
            IN IF Cardinality(dots) = 1 /\ IsDigits(ip) /\ (\A i \in 1..Len(fp) : fp[i] = "0")
               THEN Ok(VFlt(ParseNat(ip)))
               ELSE Raise("ValueError: could not convert string to float")
  ELSE Raise("TypeError: float() argument must be a string or a real number")

\* a == b
PyEq(a, b) ==
  IF IsNum(a) /\ IsNum(b) THEN NumOf(a) = NumOf(b)
  ELSE IF IsStr(a) /\ IsStr(b) THEN a.str = b.str
  ELSE IF IsList(a) /\ IsList(b) THEN a.list = b.list
  ELSE IsNone(a) /\ IsNone(b)

\* a < b is defined between two numbers and between two strings; otherwise TypeError
Comparable(a, b) == (IsNum(a) /\ IsNum(b)) \/ (IsStr(a) /\ IsStr(b))
PyLess(a, b) == IF IsNum(a) THEN NumOf(a) < NumOf(b) ELSE StrLess(a.str, b.str)

\* RuleEngine._compare_values: an exception inside the comparison gives False
_compare_values(actual, operator, expected) ==
  IF operator = "equals" THEN PyEq(actual, expected)
  ELSE IF operator = "not_equals" THEN ~PyEq(actual, expected)
  ELSE IF operator = "greater_than" THEN Comparable(actual, expected) /\ PyLess(expected, actual)
  ELSE IF operator = "greater_than_or_equal" THEN Comparable(actual, expected) /\ ~PyLess(actual, expected)
  ELSE IF operator = "less_than" THEN Comparable(actual, expected) /\ PyLess(actual, expected)
  ELSE IF operator = "less_than_or_equal" THEN Comparable(actual, expected) /\ ~PyLess(expected, actual)
  ELSE IF operator = "contains" THEN IsSubstr(lower(str(expected)), lower(str(actual)))
  ELSE IF operator = "not_contains" THEN ~IsSubstr(lower(str(expected)), lower(str(actual)))
  ELSE IF operator = "in" THEN IsList(expected) /\ \E i \in 1..Len(expected.list) : PyEq(actual, expected.list[i])
  ELSE IF operator = "not_in" THEN IsList(expected) => ~\E i \in 1..Len(expected.list) : PyEq(actual, expected.list[i])
  ELSE IF operator = "starts_with" THEN startswith(lower(str(actual)), lower(str(expected)))
  ELSE IF operator = "ends_with" THEN endswith(lower(str(actual)), lower(str(expected)))
  ELSE FALSE

----------------------------------------------------------------------------
(* Condition evaluators (RuleEngine, "CONDITION EVALUATORS").  Each        *)
(* returns Ok(TRUE), Ok(FALSE) or Raise(message).                          *)

EmptyDict == <<>>
\* the operator of a leaf; None when the key is missing
OperatorOf(condition) == Get(condition, "operator", "None")

_evaluate_order_total(condition, event_data) ==
  LET order == Get(event_data, "order", EmptyDict)
  IN IF ~IsDict(order) THEN Raise(AttributeErrorGet)
     ELSE Bind(float(Get(order, "total_price", VInt(0))), LAMBDA order_total :
          Bind(float(Get(condition, "value", VInt(0))), LAMBDA value :
            IF order_total.raised THEN order_total
            ELSE IF value.raised THEN value
            ELSE Ok(_compare_values(order_total.val, OperatorOf(condition), value.val))))

RECURSIVE SumQuantity(_)
SumQuantity(line_items) == IF line_items = <<>> THEN 0 ELSE NumOf(Get(Head(line_items), "quantity", VInt(0))) + SumQuantity(Tail(line_items))

_evaluate_order_item_count(condition, event_data) ==
  LET order == Get(event_data, "order", EmptyDict)
  IN IF ~IsDict(order) THEN Raise(AttributeErrorGet)
     ELSE LET line_items == Get(order, "line_items", <<>>)
          IN IF \E i \in 1..Len(line_items) : ~IsDict(line_items[i]) THEN Raise(AttributeErrorGet)
             ELSE IF \E i \in 1..Len(line_items) : ~IsNum(Get(line_items[i], "quantity", VInt(0))) THEN Raise("TypeError: unsupported operand type(s) for +")
             ELSE Ok(_compare_values(VInt(SumQuantity(line_items)), OperatorOf(condition), Get(condition, "value", VInt(0))))

\* set(l) of a list of product ids or tags
SetOf(l) == {l[i] : i \in 1..Len(l)}

_evaluate_product(condition, event_data) ==
  LET order == Get(event_data, "order", EmptyDict)
  IN IF ~IsDict(order) THEN Raise(AttributeErrorGet)
     ELSE LET line_items == Get(order, "line_items", <<>>)
              operator == OperatorOf(condition)
              product_ids == SetOf(Get(condition, "product_ids", <<>>))
              product_tags == SetOf(Get(condition, "product_tags", <<>>))
              products == [i \in 1..Len(line_items) |-> Get(line_items[i], "product", EmptyDict)]
              order_product_ids == {Get(products[i], "id", "") : i \in 1..Len(line_items)}
              order_product_tags == UNION {SetOf(Get(products[i], "tags", <<>>)) : i \in 1..Len(line_items)}
          IN IF \E i \in 1..Len(line_items) : ~IsDict(line_items[i]) \/ ~IsDict(products[i]) THEN Raise(AttributeErrorGet)
             ELSE IF product_ids # {} /\ operator = "in" THEN Ok(product_ids \cap order_product_ids # {})
             ELSE IF product_ids # {} /\ operator = "not_in" THEN Ok(product_ids \cap order_product_ids = {})
             ELSE IF product_tags # {} /\ operator = "contains" THEN Ok(product_tags \cap order_product_tags # {})
             ELSE IF product_tags # {} /\ operator = "not_contains" THEN Ok(product_tags \cap order_product_tags = {})
             ELSE Ok(FALSE)

_evaluate_customer(condition, event_data) ==
  LET customer == Get(event_data, "customer", EmptyDict)
      field == Get(condition, "field", "None")
  IN IF ~IsDict(customer) THEN Raise(AttributeErrorGet)
     ELSE LET customer_value == Get(customer, field, VNone)
          IN IF IsNone(customer_value) THEN Ok(FALSE)
             ELSE Ok(_compare_values(customer_value, OperatorOf(condition), Get(condition, "value", VNone)))

\* placeholders of the source: always True
_evaluate_date(condition, event_data) == Ok(TRUE)
_evaluate_date_range(condition, event_data) == Ok(TRUE)
_evaluate_metafield(condition, event_data) == Ok(TRUE)
_evaluate_tier(condition, event_data) == Ok(TRUE)
_evaluate_points(condition, event_data) == Ok(TRUE)
_evaluate_frequency(condition, event_data) == Ok(TRUE)

\* the keys of RuleEngine.condition_evaluators
condition_evaluators == {"order_total", "order_item_count", "product", "customer", "date", "date_range", "metafield", "tier", "points", "frequency"}

_evaluate_single_condition(condition, event_data) ==
  LET condition_type == Get(condition, "type", "None")
  IN IF condition_type = "order_total" THEN _evaluate_order_total(condition, event_data)
     ELSE IF condition_type = "order_item_count" THEN _evaluate_order_item_count(condition, event_data)
     ELSE IF condition_type = "product" THEN _evaluate_product(condition, event_data)
     ELSE IF condition_type = "customer" THEN _evaluate_customer(condition, event_data)
     ELSE IF condition_type = "date" THEN _evaluate_date(condition, event_data)
     ELSE IF condition_type = "date_range" THEN _evaluate_date_range(condition, event_data)
     ELSE IF condition_type = "metafield" THEN _evaluate_metafield(condition, event_data)
     ELSE IF condition_type = "tier" THEN _evaluate_tier(condition, event_data)
     ELSE IF condition_type = "points" THEN _evaluate_points(condition, event_data)
     ELSE IF condition_type = "frequency" THEN _evaluate_frequency(condition, event_data)
     ELSE Ok(FALSE)

\* the values of LogicalOperator
LogicalOperators == {"and", "or", "not"}

RECURSIVE _evaluate_conditions(_, _)
RECURSIVE AndLoop(_, _)
RECURSIVE OrLoop(_, _)

\* AND computed as all([...]) over a list: every child is evaluated first
AndLoopEager(sub_conditions, event_data) ==
  LET results == [i \in 1..Len(sub_conditions) |-> _evaluate_conditions(sub_conditions[i], event_data)]
      raising == {i \in 1..Len(results) : results[i].raised}
  IN IF raising # {} THEN results[CHOOSE i \in raising : \A j \in raising : i <= j]
     ELSE Ok(\A i \in 1..Len(results) : results[i].val)

\* for sub_condition in sub_conditions: if not evaluate(...): return False
AndLoop(sub_conditions, event_data) ==
  IF sub_conditions = <<>> THEN Ok(TRUE)
  ELSE Bind(_evaluate_conditions(Head(sub_conditions), event_data), LAMBDA r :
         IF r.raised THEN r ELSE IF ~r.val THEN Ok(FALSE) ELSE AndLoop(Tail(sub_conditions), event_data))

\* for sub_condition in sub_conditions: if evaluate(...): return True
OrLoop(sub_conditions, event_data) ==
  IF sub_conditions = <<>> THEN Ok(FALSE)
  ELSE Bind(_evaluate_conditions(Head(sub_conditions), event_data), LAMBDA r :
         IF r.raised THEN r ELSE IF r.val THEN Ok(TRUE) ELSE OrLoop(Tail(sub_conditions), event_data))

\* _evaluate_logical_condition computing AND as all(...), OR as any(...) and
\* NOT as `not any(...)`
EvaluateLogicalNotAny(condition, event_data) ==
  LET operator == OperatorOf(condition)
      sub_conditions == Get(condition, "conditions", <<>>)
  IN IF operator = "and" THEN AndLoop(sub_conditions, event_data)
     ELSE IF operator = "or" THEN OrLoop(sub_conditions, event_data)
     ELSE IF operator = "not" THEN
       Bind(OrLoop(sub_conditions, event_data), LAMBDA r : IF r.raised THEN r ELSE Ok(~r.val))
     ELSE Ok(FALSE)

_evaluate_logical_condition(condition, event_data) ==
  LET operator == OperatorOf(condition)
      sub_conditions == Get(condition, "conditions", <<>>)
  IN IF operator = "and" THEN AndLoop(sub_conditions, event_data)
     ELSE IF operator = "or" THEN OrLoop(sub_conditions, event_data)
     ELSE IF operator = "not" THEN
       (IF sub_conditions # <<>>
        THEN Bind(_evaluate_conditions(sub_conditions[1], event_data), LAMBDA r : IF r.raised THEN r ELSE Ok(~r.val))
        ELSE Ok(FALSE))
     ELSE Ok(FALSE)

\* a condition dict that has the key "operator" is taken for a logical condition
_evaluate_conditions(conditions, event_data) ==
  IF "operator" \in DOMAIN conditions
  THEN _evaluate_logical_condition(conditions, event_data)
  ELSE _evaluate_single_condition(conditions, event_data)

----------------------------------------------------------------------------
(* Action executors (RuleEngine, "ACTION EXECUTORS")                       *)

_execute_points_action(action, event_data) ==
  LET customer == Get(event_data, "customer", EmptyDict)
  IN IF ~IsDict(customer) THEN Raise(AttributeErrorGet)
     ELSE Ok([type |-> "points",
              operation |-> Get(action, "operation", "add"),
              amount |-> Get(action, "amount", 0),
              customer_id |-> Get(customer, "id", VNone),
              reason |-> Get(action, "reason", "Rule-based points adjustment"),
              success |-> TRUE])

_execute_tier_action(action, event_data) == Ok([type |-> "tier", success |-> TRUE])
_execute_badge_action(action, event_data) == Ok([type |-> "badge", success |-> TRUE])
_execute_webhook_action(action, event_data) == Ok([type |-> "webhook", success |-> TRUE])
_execute_email_action(action, event_data) == Ok([type |-> "email", success |-> TRUE])
_execute_discount_action(action, event_data) == Ok([type |-> "discount", success |-> TRUE])
_execute_tag_action(action, event_data) == Ok([type |-> "tag", success |-> TRUE])

\* the keys of RuleEngine.action_executors
action_executors == {"points", "tier", "badge", "webhook", "email", "discount", "tag"}

_execute_action(action, event_data) ==
  LET action_type == Get(action, "type", "None")
  IN IF action_type = "points" THEN _execute_points_action(action, event_data)
     ELSE IF action_type = "tier" THEN _execute_tier_action(action, event_data)
     ELSE IF action_type = "badge" THEN _execute_badge_action(action, event_data)
     ELSE IF action_type = "webhook" THEN _execute_webhook_action(action, event_data)
     ELSE IF action_type = "email" THEN _execute_email_action(action, event_data)
     ELSE IF action_type = "discount" THEN _execute_discount_action(action, event_data)
     ELSE IF action_type = "tag" THEN _execute_tag_action(action, event_data)
     ELSE Raise("ValueError: Unknown action type")

----------------------------------------------------------------------------
(* RuleEngine: loading, processing and logging                             *)

\* result["error"] and RuleExecution.error_message when there is no error
NoError == "None"

\* ORDER BY rules.priority ASC, rules.created_at ASC
Before(a, b) ==
  \/ rules[a].priority < rules[b].priority
  \/ rules[a].priority = rules[b].priority /\ rules[a].created_at < rules[b].created_at

\* ORDER BY rules.priority ASC, rules.created_at DESC (the order list_rules uses)
BeforeDesc(a, b) ==
  \/ rules[a].priority < rules[b].priority
  \/ rules[a].priority = rules[b].priority /\ rules[a].created_at > rules[b].created_at

RECURSIVE OrderBy(_)
OrderBy(S) ==
  IF S = {} THEN <<>>
  ELSE LET first == CHOOSE r \in S : \A q \in S \ {r} : Before(r, q)
       IN <<first>> \o OrderBy(S \ {first})

RECURSIVE OrderByDesc(_)
OrderByDesc(S) ==
  IF S = {} THEN <<>>
  ELSE LET first == CHOOSE r \in S : \A q \in S \ {r} : BeforeDesc(r, q)
       IN <<first>> \o OrderByDesc(S \ {first})

\* a query that leaves out the tenant column: WHERE event_type = :event_type AND status = 'active'
ActiveRowsAnyShop(shop_domain, event_type) ==
  {id \in 1..Len(rules) : /\ rules[id].event_type = event_type
                          /\ rules[id].status = "active"}

\* WHERE shop_domain = :shop AND event_type = :event_type AND status = 'active'
ActiveRows(shop_domain, event_type) ==
  {id \in 1..Len(rules) : /\ rules[id].shop_domain = shop_domain
                          /\ rules[id].event_type = event_type
                          /\ rules[id].status = "active"}

\* the same rows in the order list_rules gives them
LoadActiveRulesDesc(shop_domain, event_type) == OrderByDesc(ActiveRows(shop_domain, event_type))

_load_active_rules(shop_domain, event_type) == OrderBy(ActiveRows(shop_domain, event_type))

\* the action loop of _process_rule: stops at the first action that raises
RECURSIVE RunActions(_, _, _)
RunActions(actions, event_data, actions_executed) ==
  IF actions = <<>> THEN [actions_executed |-> actions_executed, success |-> TRUE, error |-> NoError]
  ELSE Bind(_execute_action(Head(actions), event_data), LAMBDA action_result :
         IF action_result.raised
         THEN [actions_executed |-> actions_executed, success |-> FALSE, error |-> action_result.error]
         ELSE RunActions(Tail(actions), event_data, Append(actions_executed, action_result.val)))


\* _process_rule counting an execution only when every action has succeeded
ProcessRuleCountOnSuccess(rs, id, event_data, t) ==
  Bind(_evaluate_conditions(rs[id].conditions, event_data), LAMBDA conditions_met :
    IF conditions_met.raised THEN [raised |-> TRUE, error |-> conditions_met.error]
    ELSE Bind(IF conditions_met.val
              THEN RunActions(rs[id].actions, event_data, <<>>)
              ELSE [actions_executed |-> <<>>, success |-> TRUE, error |-> NoError],
              LAMBDA run :
         IF conditions_met.val /\ "execution_count" \notin DOMAIN rs[id]
         THEN [raised |-> TRUE, error |-> "TypeError: unsupported operand type(s) for +=: 'NoneType' and 'int'"]
         ELSE
         [raised |-> FALSE,
          rules |-> IF conditions_met.val /\ run.success
                    THEN [rs EXCEPT ![id].execution_count = @ + 1, ![id].last_executed_at = t]
                    ELSE rs,
          result |-> [rule_id |-> id,
                      rule_name |-> rs[id].name,
                      conditions_met |-> conditions_met.val,
                      actions_executed |-> run.actions_executed,
                      success |-> run.success,
                      error |-> run.error]]))

\* _process_rule on row id of the table rs at time t: the exception of the
\* condition evaluation or of the count update, or the result and the table
\* after the commit.  A Rule object that was never flushed has no column
\* defaults: its row has no field execution_count.
_process_rule(rs, id, event_data, t) ==
  Bind(_evaluate_conditions(rs[id].conditions, event_data), LAMBDA conditions_met :
    IF conditions_met.raised THEN [raised |-> TRUE, error |-> conditions_met.error]
    ELSE Bind(IF conditions_met.val
              THEN RunActions(rs[id].actions, event_data, <<>>)
              ELSE [actions_executed |-> <<>>, success |-> TRUE, error |-> NoError],
              LAMBDA run :
         IF conditions_met.val /\ "execution_count" \notin DOMAIN rs[id]
         THEN [raised |-> TRUE, error |-> "TypeError: unsupported operand type(s) for +=: 'NoneType' and 'int'"]
         ELSE
         [raised |-> FALSE,
          rules |-> IF conditions_met.val
                    THEN [rs EXCEPT ![id].execution_count = @ + 1, ![id].last_executed_at = t]
                    ELSE rs,
          result |-> [rule_id |-> id,
                      rule_name |-> rs[id].name,
                      conditions_met |-> conditions_met.val,
                      actions_executed |-> run.actions_executed,
                      success |-> run.success,
                      error |-> run.error]]))

\* _log_execution recording every execution as a success
LogExecutionAlwaysSuccess(rule_id, rule, event_data, result) ==
  LET customer == Get(event_data, "customer", EmptyDict)
  IN IF ~IsDict(customer) THEN Raise(AttributeErrorGet)
     ELSE Ok([rule_id |-> rule_id,
              shop_domain |-> rule.shop_domain,
              event_type |-> rule.event_type,
              event_data |-> event_data,
              customer_id |-> Get(customer, "id", VNone),
              conditions_met |-> Get(result, "conditions_met", FALSE),
              actions_executed |-> Get(result, "actions_executed", <<>>),
              success |-> TRUE,
              error_message |-> Get(result, "error", NoError)])

\* _log_execution: the RuleExecution row, or the exception of building it
\* (execution_time_ms, a wall-clock measurement, is not modelled)
_log_execution(rule_id, rule, event_data, result) ==
  LET customer == Get(event_data, "customer", EmptyDict)
  IN IF ~IsDict(customer) THEN Raise(AttributeErrorGet)
     ELSE Ok([rule_id |-> rule_id,
              shop_domain |-> rule.shop_domain,
              event_type |-> rule.event_type,
              event_data |-> event_data,
              customer_id |-> Get(customer, "id", VNone),
              conditions_met |-> Get(result, "conditions_met", FALSE),
              actions_executed |-> Get(result, "actions_executed", <<>>),
              success |-> Get(result, "success", TRUE),
              error_message |-> Get(result, "error", NoError)])

\* the rule loop of process_event over the loaded rows ids
RECURSIVE RunRules(_, _, _, _, _, _)
RunRules(ids, event_data, rs, ex, results, t) ==
  IF ids = <<>> THEN [raised |-> FALSE, rules |-> rs, executions |-> ex, results |-> results]
  ELSE Bind(_process_rule(rs, Head(ids), event_data, t), LAMBDA p :
       Bind(IF p.raised THEN p ELSE _log_execution(Head(ids), rs[Head(ids)], event_data, p.result), LAMBDA logged :
         IF ~logged.raised
         THEN RunRules(Tail(ids), event_data, p.rules, Append(ex, logged.val), Append(results, p.result), t)
         ELSE \* except Exception as e: build, append and log the error result
              Bind([rule_id |-> Head(ids), success |-> FALSE, error |-> logged.error, actions_executed |-> <<>>],
                   LAMBDA error_result :
              Bind(_log_execution(Head(ids), rs[Head(ids)], event_data, error_result), LAMBDA relogged :
                IF relogged.raised
                THEN \* the exception leaves process_event; _process_rule has already
                     \* committed the rule's execution_count
                     [raised |-> TRUE, error |-> relogged.error,
                      rules |-> IF p.raised THEN rs ELSE p.rules,
                      executions |-> ex,
                      results |-> Append(IF p.raised THEN results ELSE Append(results, p.result), error_result)]
                ELSE RunRules(Tail(ids), event_data, IF p.raised THEN rs ELSE p.rules, Append(ex, relogged.val),
                              Append(IF p.raised THEN results ELSE Append(results, p.result), error_result), t)))))

----------------------------------------------------------------------------
(* Rule schema (rule_schemas.py) and RuleManager.validate_rule             *)

\* the values of ComparisonOperator
ComparisonOperators == {"equals", "not_equals", "greater_than", "greater_than_or_equal", "less_than", "less_than_or_equal", "contains", "not_contains", "in", "not_in", "starts_with", "ends_with"}

\* the values of EventType
EventTypes == {"order_created", "order_paid", "order_fulfilled", "customer_created", "referral_signup", "referral_conversion", "manual_adjustment", "tier_change", "birthday", "anniversary", "product_review", "social_share"}

DefaultPriority == 100
MinPriority == 1
MaxPriority == 1000

\* a dict validates against a model class with a Literal type tag and the
\* given required fields; the tag has a default, so it may be missing
Matches(d, type, required) ==
  /\ "type" \in DOMAIN d => d.type = type
  /\ required \subseteq DOMAIN d
  /\ "operator" \in required => d.operator \in ComparisonOperators

IsNumeric(v) == ~float(v).raised

\* Union[OrderTotalCondition, ..., FrequencyCondition]
LeafSchemaOk(c) ==
  \/ Matches(c, "order_total", {"operator", "value"}) /\ IsNumeric(c.value)
  \/ Matches(c, "order_item_count", {"operator", "value"}) /\ IsNumeric(c.value)
  \/ Matches(c, "product", {"operator"})
  \/ Matches(c, "customer", {"field", "operator", "value"}) /\ (IsStr(c.value) \/ IsNum(c.value) \/ IsList(c.value))
  \/ Matches(c, "date", {"field", "operator", "value"})
  \/ Matches(c, "date_range", {"start_date", "end_date"})
  \/ Matches(c, "metafield", {"namespace", "key", "operator", "value"})
  \/ Matches(c, "tier", {"operator", "tier_names"})
  \/ Matches(c, "points", {"operator", "value"}) /\ IsNumeric(c.value)
  \/ Matches(c, "frequency", {"event_type", "operator", "value"}) /\ IsNumeric(c.value)

\* Union[ConditionType, LogicalCondition]
RECURSIVE ConditionSchemaOk(_)
ConditionSchemaOk(c) ==
  \/ LeafSchemaOk(c)
  \/ /\ {"operator", "conditions"} \subseteq DOMAIN c
     /\ c.operator \in LogicalOperators
     /\ \A i \in 1..Len(c.conditions) : ConditionSchemaOk(c.conditions[i])

\* Union[PointsAction, ..., TagAction]
ActionSchemaOk(a) ==
  \/ Matches(a, "points", {"amount"})
  \/ Matches(a, "tier", {"tier_name"})
  \/ Matches(a, "badge", {"badge_name"})
  \/ Matches(a, "webhook", {"url"})
  \/ Matches(a, "email", {"template_id"})
  \/ Matches(a, "discount", {"discount_type", "value"})
  \/ Matches(a, "tag", {"operation", "tags"})

\* RuleSchema(**rule_data) does not raise
RuleSchemaOk(rule_data) ==
  /\ "name" \in DOMAIN rule_data /\ rule_data.name # ""
  /\ "event_type" \in DOMAIN rule_data
  /\ "priority" \in DOMAIN rule_data => rule_data.priority \in MinPriority..MaxPriority
  /\ "conditions" \in DOMAIN rule_data /\ ConditionSchemaOk(rule_data.conditions)
  /\ "actions" \in DOMAIN rule_data /\ \A i \in 1..Len(rule_data.actions) : ActionSchemaOk(rule_data.actions[i])

\* the schema validation alone, without the check of the action list
ValidateIgnoringEmptyActions(rule_data) ==
  IF ~RuleSchemaOk(rule_data)
  THEN [valid |-> FALSE, errors |-> <<"Schema validation error">>, warnings |-> <<>>]
  ELSE [valid |-> TRUE, errors |-> <<>>, warnings |-> <<>>]

\* RuleManager.validate_rule; _validate_conditions and _validate_actions are empty
validate_rule(rule_data) ==
  IF ~RuleSchemaOk(rule_data)
  THEN [valid |-> FALSE, errors |-> <<"Schema validation error">>, warnings |-> <<>>]
  ELSE LET priority == Get(rule_data, "priority", DefaultPriority)
           warnings == IF priority < MinPriority \/ priority > MaxPriority
                       THEN <<"Priority should be between 1 and 1000">> ELSE <<>>
           errors == IF rule_data.actions = <<>> THEN <<"Rule must have at least one action">> ELSE <<>>
       IN [valid |-> errors = <<>>, errors |-> errors, warnings |-> warnings]

----------------------------------------------------------------------------
(* RuleManager: the operations on the rule definition store.  A timestamp  *)
(* column that is NULL holds 0; the clock starts at 1.  The column         *)
(* updated_at, which nothing reads, is left out.                           *)

Null == 0

\* RuleManager._get_rule: the row with this id, if there is one
Exists(rule_id) == rule_id \in 1..Len(rules)

\* a snapshot numbered 1 whatever the rule's version is
CreateVersionStale(rule_id, rule, created_by, change_notes) ==
  [rule_id |-> rule_id,
   version_number |-> 1,
   name |-> rule.name,
   description |-> rule.description,
   event_type |-> rule.event_type,
   conditions |-> rule.conditions,
   actions |-> rule.actions,
   created_by |-> created_by,
   change_notes |-> change_notes]

\* RuleManager._create_version: the RuleVersion row snapshotting rule
_create_version(rule_id, rule, created_by, change_notes) ==
  [rule_id |-> rule_id,
   version_number |-> rule.version,
   name |-> rule.name,
   description |-> rule.description,
   event_type |-> rule.event_type,
   conditions |-> rule.conditions,
   actions |-> rule.actions,
   created_by |-> created_by,
   change_notes |-> change_notes]

Returned(op, fields) == [op |-> op, raised |-> FALSE] @@ fields
Raised(op, error) == [op |-> op, raised |-> TRUE, error |-> error]

\* RuleManager.create_rule
CreateRule(shop_domain, rule_data, created_by) ==
  IF ~validate_rule(rule_data).valid
  THEN /\ ret' = Raised("create_rule", "ValueError: Invalid rule")
       /\ UNCHANGED <<rules, versions, executions, now, archived, streaming, updates>>
  ELSE /\ Len(rules) < MaxRules
       /\ LET rule_id == Len(rules) + 1
              rule == [shop_domain |-> shop_domain,
                       name |-> rule_data.name,
                       description |-> Get(rule_data, "description", "None"),
                       event_type |-> rule_data.event_type,
                       conditions |-> rule_data.conditions,
                       actions |-> rule_data.actions,
                       priority |-> Get(rule_data, "priority", DefaultPriority),
                       status |-> "draft",
                       created_by |-> created_by,
                       version |-> 1,
                       created_at |-> now,
                       execution_count |-> 0,
                       last_executed_at |-> Null]
          IN /\ rules' = Append(rules, rule)
             /\ versions' = Append(versions, _create_version(rule_id, rule, created_by, "Initial version"))
             /\ ret' = Returned("create_rule", [rule_id |-> rule_id])
       /\ now' = now + 1
       /\ UNCHANGED <<executions, archived, streaming, updates>>

\* update_rule counting the version up before it validates the definition
UpdateRuleCountFirst(rule_id, rule_data, updated_by) ==
  IF ~Exists(rule_id)
  THEN /\ ret' = Raised("update_rule", "ValueError: Rule not found")
       /\ UNCHANGED <<rules, versions, executions, now, archived, streaming, updates>>
  ELSE /\ rules[rule_id].version < MaxVersion
       /\ rules' = [rules EXCEPT ![rule_id].version = @ + 1]
       /\ ret' = IF validate_rule(rule_data).valid
                 THEN Returned("update_rule", [rule_id |-> rule_id])
                 ELSE Raised("update_rule", "ValueError: Invalid rule")
       /\ UNCHANGED <<versions, executions, now, archived, streaming, updates>>

\* RuleManager.update_rule
UpdateRule(rule_id, rule_data, updated_by) ==
  IF ~Exists(rule_id)
  THEN /\ ret' = Raised("update_rule", "ValueError: Rule not found")
       /\ UNCHANGED <<rules, versions, executions, now, archived, streaming, updates>>
  ELSE IF ~validate_rule(rule_data).valid
  THEN /\ ret' = Raised("update_rule", "ValueError: Invalid rule")
       /\ UNCHANGED <<rules, versions, executions, now, archived, streaming, updates>>
  ELSE /\ rules[rule_id].version < MaxVersion
       /\ LET rule == [rules[rule_id] EXCEPT
                         !.name = rule_data.name,
                         !.description = Get(rule_data, "description", "None"),
                         !.event_type = rule_data.event_type,
                         !.conditions = rule_data.conditions,
                         !.actions = rule_data.actions,
                         !.priority = Get(rule_data, "priority", DefaultPriority),
                         !.version = @ + 1]
          IN /\ rules' = [rules EXCEPT ![rule_id] = rule]
             /\ versions' = Append(versions, _create_version(rule_id, rule, updated_by, "Updated rule"))
             /\ ret' = Returned("update_rule", [rule_id |-> rule_id])
       /\ UNCHANGED <<executions, now, archived, streaming, updates>>

SetStatus(rule_id, status) == [rules EXCEPT ![rule_id].status = status]

\* RuleManager.activate_rule
ActivateRule(rule_id) ==
  /\ IF ~Exists(rule_id)
     THEN rules' = rules /\ ret' = Raised("activate_rule", "ValueError: Rule not found")
     ELSE rules' = SetStatus(rule_id, "active") /\ ret' = Returned("activate_rule", [rule_id |-> rule_id])
  /\ UNCHANGED <<versions, executions, now, archived, streaming, updates>>

\* RuleManager.deactivate_rule
DeactivateRule(rule_id) ==
  /\ IF ~Exists(rule_id)
     THEN rules' = rules /\ ret' = Raised("deactivate_rule", "ValueError: Rule not found")
     ELSE rules' = SetStatus(rule_id, "paused") /\ ret' = Returned("deactivate_rule", [rule_id |-> rule_id])
  /\ UNCHANGED <<versions, executions, now, archived, streaming, updates>>

\* delete_rule archiving the rule and removing its version history
DeleteRuleWithVersions(rule_id) ==
  /\ IF ~Exists(rule_id)
     THEN rules' = rules /\ ret' = Returned("delete_rule", [val |-> FALSE])
     ELSE rules' = SetStatus(rule_id, "archived") /\ ret' = Returned("delete_rule", [val |-> TRUE])
  /\ versions' = SelectSeq(versions, LAMBDA v : v.rule_id # rule_id)
  /\ archived' = IF Exists(rule_id) THEN archived \cup {rule_id} ELSE archived
  /\ UNCHANGED <<executions, now, streaming, updates>>

\* RuleManager.delete_rule
DeleteRule(rule_id) ==
  /\ IF ~Exists(rule_id)
     THEN rules' = rules /\ ret' = Returned("delete_rule", [val |-> FALSE])
     ELSE rules' = SetStatus(rule_id, "archived") /\ ret' = Returned("delete_rule", [val |-> TRUE])
  /\ archived' = IF Exists(rule_id) THEN archived \cup {rule_id} ELSE archived
  /\ UNCHANGED <<versions, executions, now, streaming, updates>>

\* RuleEngine.process_event
ProcessEvent(shop_domain, event_type, event_data) ==
  \E loaded \in {_load_active_rules(shop_domain, event_type)} :
    /\ Len(executions) + Len(loaded) <= MaxExecutions
    /\ \A i \in 1..Len(loaded) : rules[loaded[i]].execution_count < MaxExecutions
    /\ \E run \in {RunRules(loaded, event_data, rules, executions, <<>>, now)} :
         /\ rules' = run.rules
         /\ executions' = run.executions
         /\ ret' = [shop_domain |-> shop_domain, event_type |-> event_type, event_data |-> event_data]
                   @@ IF run.raised
                      THEN Raised("process_event", run.error)
                      ELSE Returned("process_event", [results |-> run.results])
    /\ UNCHANGED <<versions, now, archived, streaming, updates>>

----------------------------------------------------------------------------
(* RuleManager: validate and test, which work on a definition and not on   *)
(* the store                                                               *)

\* str(None), the rule_id in the result of a rule that has no id yet
NoId == "None"

\* RuleManager.test_rule: _process_rule on a temporary Rule that is never
\* added to the session
test_rule(rule_data, test_payload) ==
  IF ~({"event_type", "conditions", "actions"} \subseteq DOMAIN rule_data)
  THEN Raise("KeyError")
  ELSE LET temp_rule == [shop_domain |-> "test",
                         name |-> "Test Rule",
                         event_type |-> rule_data.event_type,
                         conditions |-> rule_data.conditions,
                         actions |-> rule_data.actions,
                         status |-> "active"]
       IN Bind(_process_rule(<<temp_rule>>, 1, test_payload, now), LAMBDA p :
            IF p.raised THEN Raise(p.error) ELSE Ok([p.result EXCEPT !.rule_id = NoId]))

\* a call of RuleManager.validate_rule
ValidateRule(rule_data) ==
  /\ ret' = Returned("validate_rule", [rule_data |-> rule_data] @@ validate_rule(rule_data))
  /\ UNCHANGED <<rules, versions, executions, now, archived, streaming, updates>>

\* a call of RuleManager.test_rule
TestRule(rule_data, test_payload) ==
  /\ \E r \in {test_rule(rule_data, test_payload)} :
       ret' = [rule_data |-> rule_data, test_payload |-> test_payload]
              @@ IF r.raised THEN Raised("test_rule", r.error)
                 ELSE Returned("test_rule", [result |-> r.val])
  /\ UNCHANGED <<rules, versions, executions, now, archived, streaming, updates>>

----------------------------------------------------------------------------
(* Calls of the engine's evaluation methods on given arguments, as the     *)
(* unit tests make them                                                    *)

\* the arguments of a call together with what it returned or raised
Outcome(op, arguments, r) ==
  arguments @@ IF r.raised THEN Raised(op, r.error) ELSE Returned(op, [val |-> r.val])

\* a call of RuleEngine._compare_values
CompareValues(actual, operator, expected) ==
  /\ ret' = Outcome("_compare_values", [actual |-> actual, operator |-> operator, expected |-> expected],
                    Ok(_compare_values(actual, operator, expected)))
  /\ UNCHANGED <<rules, versions, executions, now, archived, streaming, updates>>

\* a call of RuleEngine._evaluate_single_condition
EvaluateSingleCondition(condition, event_data) ==
  /\ \E r \in {_evaluate_single_condition(condition, event_data)} :
       ret' = Outcome("_evaluate_single_condition", [condition |-> condition, event_data |-> event_data], r)
  /\ UNCHANGED <<rules, versions, executions, now, archived, streaming, updates>>

\* a call of RuleEngine._evaluate_conditions
EvaluateConditions(conditions, event_data) ==
  /\ \E r \in {_evaluate_conditions(conditions, event_data)} :
       ret' = Outcome("_evaluate_conditions", [conditions |-> conditions, event_data |-> event_data], r)
  /\ UNCHANGED <<rules, versions, executions, now, archived, streaming, updates>>
----------------------------------------------------------------------------
(* update_rule as concurrent requests run it                               *)
(* Every request has its own session (rule_api.py, Depends(get_db)), made  *)
(* with expire_on_commit=False: the Rule object that _get_rule has loaded  *)
(* keeps its values over the commits.  update_rule gives up control at     *)
(* its three awaits: the SELECT of _get_rule, the commit of the changed    *)
(* columns, and the insert of the RuleVersion.                             *)

\* the requests that can run update_rule at the same time
Requests == {"request_1", "request_2"}

\* update_rule up to `await self.db.commit()`: the rule is loaded, the
\* definition validated and the loaded object changed
UpdateRuleLoad(r, rule_id, rule_data, updated_by) ==
  /\ updates[r].pc = "idle"
  /\ IF ~Exists(rule_id)
     THEN ret' = Raised("update_rule", "ValueError: Rule not found") /\ UNCHANGED updates
     ELSE IF ~validate_rule(rule_data).valid
     THEN ret' = Raised("update_rule", "ValueError: Invalid rule") /\ UNCHANGED updates
     ELSE /\ rules[rule_id].version < MaxVersion
          /\ updates' = [updates EXCEPT ![r] =
                           [pc |-> "commit", rule_id |-> rule_id, updated_by |-> updated_by,
                            rule |-> [rules[rule_id] EXCEPT
                                        !.name = rule_data.name,
                                        !.description = Get(rule_data, "description", "None"),
                                        !.event_type = rule_data.event_type,
                                        !.conditions = rule_data.conditions,
                                        !.actions = rule_data.actions,
                                        !.priority = Get(rule_data, "priority", DefaultPriority),
                                        !.version = @ + 1]]]
          /\ UNCHANGED ret
  /\ UNCHANGED <<rules, versions, executions, now, archived, streaming>>

\* `await self.db.commit()` of update_rule: the UPDATE writes the columns
\* that update_rule has assigned, with the values of the session's object
UpdateRuleCommit(r) ==
  /\ updates[r].pc = "commit"
  /\ \E rule \in {updates[r].rule} :
       rules' = [rules EXCEPT ![updates[r].rule_id] =
                   [@ EXCEPT !.name = rule.name,
                             !.description = rule.description,
                             !.event_type = rule.event_type,
                             !.conditions = rule.conditions,
                             !.actions = rule.actions,
                             !.priority = rule.priority,
                             !.version = rule.version]]
  /\ updates' = [updates EXCEPT ![r].pc = "create_version"]
  /\ UNCHANGED <<versions, executions, now, ret, archived, streaming>>

\* `await self._create_version(rule, updated_by, "Updated rule")` and the
\* return of update_rule
UpdateRuleCreateVersion(r) ==
  /\ updates[r].pc = "create_version"
  /\ versions' = Append(versions, _create_version(updates[r].rule_id, updates[r].rule, updates[r].updated_by, "Updated rule"))
  /\ ret' = Returned("update_rule", [rule_id |-> updates[r].rule_id])
  /\ updates' = [updates EXCEPT ![r] = [pc |-> "idle"]]
  /\ UNCHANGED <<rules, executions, now, archived, streaming>>
----------------------------------------------------------------------------
(* The event streaming system (backend/event_streaming.py)                 *)
(*                                                                         *)
(* A stream entry is the dict of fields that xreadgroup returns for it.    *)
(* A datetime is modelled as [iso |-> s], s its isoformat() text.  A       *)
(* Celery task is a record that stays at its index of `celery`: `state`    *)
(* is "queued" until the task has returned ("success") or has raised for   *)
(* the last time ("failure"); `retries` is self.request.retries,           *)
(* `countdown` the delay of its latest scheduling and `outcomes` what each *)
(* run of it by a worker ended with: "success", or "failed" for a raise.   *)

\* the names of the consumers: f"processor_{uuid.uuid4().hex[:8]}"
Consumers == {"processor_1", "processor_2"}

\* consume_events(batch_size=10)
batch_size == 10

\* datetime.fromisoformat
fromisoformat(s) ==
  IF s = "2024-01-15T10:30:00" THEN Ok([iso |-> "2024-01-15T10:30:00"])
  ELSE IF s = "2024-01-15" THEN Ok([iso |-> "2024-01-15T00:00:00"])
  ELSE Raise("ValueError: Invalid isoformat string")

\* the fields of the dataclass LoyaltyEvent, and the ones that have a default
LoyaltyEventDefaults == [source |-> "api", correlation_id |-> VNone, retry_count |-> VInt(0), max_retries |-> VInt(3)]
LoyaltyEventFields ==
  {"event_id", "event_type", "shop_domain", "customer_id", "event_data", "timestamp"} \cup DOMAIN LoyaltyEventDefaults

\* LoyaltyEvent.from_dict: the fields are taken as they are, nothing but the
\* timestamp is converted
from_dict(data) ==
  IF "timestamp" \notin DOMAIN data THEN Raise("KeyError: 'timestamp'")
  ELSE Bind(fromisoformat(data.timestamp), LAMBDA timestamp :
    IF timestamp.raised THEN timestamp
    ELSE IF ~(DOMAIN data \subseteq LoyaltyEventFields)
    THEN Raise("TypeError: __init__() got an unexpected keyword argument")
    ELSE IF ~(LoyaltyEventFields \ DOMAIN LoyaltyEventDefaults \subseteq DOMAIN data)
    THEN Raise("TypeError: __init__() missing required positional arguments")
    ELSE Ok([timestamp |-> timestamp.val] @@ data @@ LoyaltyEventDefaults))

\* LoyaltyEvent.to_dict: asdict gives the dataclass fields only, so the
\* attribute stream_id that consume_events adds is not part of it
to_dict(event) ==
  [k \in DOMAIN event \cap LoyaltyEventFields |-> IF k = "timestamp" THEN event.timestamp.iso ELSE event[k]]

\* xack: the entry leaves the group's pending entries; an id that is not
\* pending is left alone
xack(entries, stream_id) == {p \in entries : p.id # stream_id}

\* `async with get_db() as session`: models_v2.get_db is an async generator
\* function, and an async generator is not an asynchronous context manager
get_db == Raise("TypeError: 'async_generator' object does not support the asynchronous context manager protocol")

\* WebhookDelivery.deliver_webhook: the task it enqueues (the timestamp of
\* the payload, a wall-clock reading, is not modelled); the url is "None"
\* when action.get('url') is None
deliver_webhook(event, action, rule_result) ==
  [name |-> "deliver_webhook_task",
   url |-> Get(action, "url", "None"),
   data |-> [event |-> to_dict(event), action |-> action, rule_result |-> rule_result],
   headers |-> Get(action, "headers", EmptyDict),
   method |-> Get(action, "method", "POST"),
   retries |-> 0, countdown |-> 0, outcomes |-> <<>>, state |-> "queued"]

\* the webhook loop of process_single_event over the engine's results
RECURSIVE WebhookActions(_, _)
WebhookActions(event, results) ==
  IF results = <<>> THEN <<>>
  ELSE LET result == Head(results)
           actions == IF Get(result, "success", FALSE) THEN Get(result, "actions_executed", <<>>) ELSE <<>>
           hooks == SelectSeq(actions, LAMBDA action : Get(action, "type", "None") = "webhook")
       IN [i \in 1..Len(hooks) |-> deliver_webhook(event, hooks[i], result)] \o WebhookActions(event, Tail(results))

\* EventProcessor.process_single_event: whether it raised, the tables as it
\* leaves them and the webhook tasks it has enqueued
process_single_event(event) ==
  Bind(get_db, LAMBDA session :
    IF session.raised
    THEN [raised |-> TRUE, error |-> session.error, rules |-> rules, executions |-> executions, tasks |-> <<>>]
    ELSE Bind(RunRules(_load_active_rules(event.shop_domain, event.event_type), event.event_data,
                       rules, executions, <<>>, now), LAMBDA run :
           [raised |-> run.raised, error |-> IF run.raised THEN run.error ELSE NoError,
            rules |-> run.rules, executions |-> run.executions,
            tasks |-> IF run.raised THEN <<>> ELSE WebhookActions(event, run.results)]))

\* EventProcessor.retry_event: the task it schedules, or the exception of
\* `event.retry_count += 1`
retry_event(event) ==
  IF ~IsInt(event.retry_count) THEN Raise("TypeError: can only concatenate str (not \"int\") to str")
  ELSE LET retry_count == event.retry_count.int + 1
           delay == IF 2^retry_count < 300 THEN 2^retry_count ELSE 300
       IN Ok([name |-> "process_event_task",
              event_data |-> to_dict([event EXCEPT !.retry_count = VInt(retry_count)]),
              retries |-> 0, countdown |-> delay, outcomes |-> <<>>, state |-> "queued"])

\* EventProcessorDaemon.start up to the processing loop: the signal handlers
\* are set, the processor is made and connected
Start(c) ==
  /\ daemon[c].loop = "none"
  /\ daemon' = [daemon EXCEPT ![c] = [loop |-> "processing", running |-> TRUE, shutdown_event |-> FALSE]]
  /\ UNCHANGED <<rules, versions, executions, now, ret, archived, stream, last_delivered, pending, batch, celery, invoked, updates>>

\* EventProcessorDaemon.signal_handler, on SIGTERM or SIGINT
SignalHandler(c) ==
  /\ daemon[c].loop = "processing"
  /\ ~daemon[c].shutdown_event
  /\ daemon' = [daemon EXCEPT ![c].running = FALSE, ![c].shutdown_event = TRUE]
  /\ UNCHANGED <<rules, versions, executions, now, ret, archived, stream, last_delivered, pending, batch, celery, invoked, updates>>

\* the process of a processor is killed: what it had in memory is gone, what
\* it had read and not acknowledged stays pending under its name
Kill(c) ==
  /\ daemon[c].loop = "processing"
  /\ daemon' = [daemon EXCEPT ![c].loop = "killed"]
  /\ batch' = [batch EXCEPT ![c] = <<>>]
  /\ UNCHANGED <<rules, versions, executions, now, ret, archived, stream, last_delivered, pending, celery, invoked, updates>>

\* xadd: a producer appends an entry to the stream
XAdd(fields) ==
  /\ Len(stream) < MaxStream
  /\ stream' = Append(stream, fields)
  /\ UNCHANGED <<rules, versions, executions, now, ret, archived, last_delivered, pending, batch, daemon, celery, invoked, updates>>

\* consume_events with one try block around the whole batch: an entry that
\* from_dict refuses is acknowledged and ends the round, nothing is yielded
ConsumeEventsOneTry(c) ==
  /\ daemon[c].loop = "processing"
  /\ batch[c] = <<>>
  /\ last_delivered < Len(stream)
  /\ LET last == IF Len(stream) - last_delivered < batch_size THEN Len(stream) ELSE last_delivered + batch_size
         msgs == [i \in 1..(last - last_delivered) |-> last_delivered + i]
         parsed == SelectSeq(msgs, LAMBDA msg_id : ~from_dict(stream[msg_id]).raised)
     IN /\ last_delivered' = last
        /\ pending' = pending \cup {[id |-> parsed[i], consumer |-> c] : i \in 1..Len(parsed)}
        /\ batch' = [batch EXCEPT ![c] = IF Len(parsed) < Len(msgs) THEN <<>> ELSE [i \in 1..Len(parsed) |->
                       [stream_id |-> parsed[i]] @@ from_dict(stream[parsed[i]]).val]]
  /\ UNCHANGED <<rules, versions, executions, now, ret, archived, stream, daemon, celery, invoked, updates>>

\* EventStreamer.consume_events: one round of its loop that reads entries.
\* xreadgroup hands the consumer the entries after the last delivered one
\* and makes them pending; the entries that from_dict refuses are
\* acknowledged, the events made of the others are yielded as one batch.
ConsumeEvents(c) ==
  /\ daemon[c].loop = "processing"
  /\ batch[c] = <<>>
  /\ last_delivered < Len(stream)
  /\ LET last == IF Len(stream) - last_delivered < batch_size THEN Len(stream) ELSE last_delivered + batch_size
         msgs == [i \in 1..(last - last_delivered) |-> last_delivered + i]
         parsed == SelectSeq(msgs, LAMBDA msg_id : ~from_dict(stream[msg_id]).raised)
     IN /\ last_delivered' = last
        /\ pending' = pending \cup {[id |-> parsed[i], consumer |-> c] : i \in 1..Len(parsed)}
        /\ batch' = [batch EXCEPT ![c] = [i \in 1..Len(parsed) |->
                       [stream_id |-> parsed[i]] @@ from_dict(stream[parsed[i]]).val]]
  /\ UNCHANGED <<rules, versions, executions, now, ret, archived, stream, daemon, celery, invoked, updates>>

\* what an exception that leaves process_event_batch does: it leaves
\* start_processing and EventProcessorDaemon.start, whose cleanup disconnects
LoopFailed(c) ==
  /\ daemon' = [daemon EXCEPT ![c].loop = "failed"]
  /\ batch' = [batch EXCEPT ![c] = <<>>]

\* EventProcessor.process_event_batch: one round of its loop, on the first
\* event of the batch that is not handled yet
ProcessEventBatch(c) ==
  /\ daemon[c].loop = "processing"
  /\ batch[c] # <<>>
  /\ \E event \in {Head(batch[c])} : \E r \in {process_single_event(event)} :
       /\ rules' = r.rules
       /\ executions' = r.executions
       /\ invoked' = Append(invoked, event.event_id)
       /\ IF ~r.raised
          THEN /\ pending' = xack(pending, event.stream_id)
               /\ celery' = celery \o r.tasks
               /\ batch' = [batch EXCEPT ![c] = Tail(batch[c])]
               /\ UNCHANGED daemon
          ELSE IF ~Comparable(event.retry_count, event.max_retries)
          THEN \* TypeError: '<' not supported between instances of 'str' and 'int'
               LoopFailed(c) /\ UNCHANGED <<pending, celery>>
          ELSE IF PyLess(event.retry_count, event.max_retries)
          THEN \E task \in {retry_event(event)} :
                 IF task.raised
                 THEN LoopFailed(c) /\ UNCHANGED <<pending, celery>>
                 ELSE /\ celery' = Append(celery, task.val)
                      /\ batch' = [batch EXCEPT ![c] = Tail(batch[c])]
                      /\ UNCHANGED <<pending, daemon>>
          ELSE /\ pending' = xack(pending, event.stream_id)
               /\ batch' = [batch EXCEPT ![c] = Tail(batch[c])]
               /\ UNCHANGED <<daemon, celery>>
  /\ UNCHANGED <<versions, now, ret, archived, stream, last_delivered, updates>>

\* self.retry(exc=exc, countdown=countdown) of a task with max_retries: the
\* task is scheduled again, or has failed for good once its retries are used
Retry(task, countdown, max_retries) ==
  IF task.retries + 1 > max_retries
  THEN [task EXCEPT !.outcomes = Append(task.outcomes, "failed"), !.state = "failure"]
  ELSE [task EXCEPT !.outcomes = Append(task.outcomes, "failed"), !.retries = task.retries + 1, !.countdown = countdown]


\* a worker runs the process_event_task at index i
ProcessEventTask(i) ==
  /\ i \in 1..Len(celery)
  /\ celery[i].name = "process_event_task"
  /\ celery[i].state = "queued"
  /\ \E task \in {celery[i]} : \E event \in {from_dict(task.event_data)} :
       IF event.raised
       THEN /\ celery' = [celery EXCEPT ![i] = Retry(task, 60, 3)]
            /\ UNCHANGED <<rules, executions, invoked>>
       ELSE \E r \in {process_single_event(event.val)} :
              /\ rules' = r.rules
              /\ executions' = r.executions
              /\ invoked' = Append(invoked, event.val.event_id)
              /\ celery' = [celery EXCEPT ![i] =
                              IF r.raised THEN Retry(task, 60, 3)
                              ELSE [task EXCEPT !.outcomes = Append(task.outcomes, "success"), !.state = "success"]] \o r.tasks
  /\ UNCHANGED <<versions, now, ret, archived, stream, last_delivered, pending, batch, daemon, updates>>

\* a call of WebhookDelivery.deliver_webhook
DeliverWebhook(event, action, rule_result) ==
  /\ Len(celery) < MaxTasks
  /\ celery' = Append(celery, deliver_webhook(event, action, rule_result))
  /\ UNCHANGED <<rules, versions, executions, now, ret, archived, stream, last_delivered, pending, batch, daemon, invoked, updates>>

\* deliver_webhook_task calling self.retry after a delivered request as well
DeliverWebhookTaskRetryAlways(i, response) ==
  /\ i \in 1..Len(celery)
  /\ celery[i].name = "deliver_webhook_task"
  /\ celery[i].state = "queued"
  /\ \E task \in {celery[i]} :
       celery' = [celery EXCEPT ![i] =
                    IF response \in 200..299
                    THEN Retry([task EXCEPT !.outcomes = Append(task.outcomes, "success")], 60, 5)
                    ELSE Retry(task, IF (2^task.retries) * 60 < 300 THEN (2^task.retries) * 60 ELSE 300, 5)]
  /\ UNCHANGED <<rules, versions, executions, now, ret, archived, stream, last_delivered, pending, batch, daemon, invoked, updates>>

\* a worker runs the deliver_webhook_task at index i and the endpoint
\* answers with `response`: a status code, or no answer at all
DeliverWebhookTask(i, response) ==
  /\ i \in 1..Len(celery)
  /\ celery[i].name = "deliver_webhook_task"
  /\ celery[i].state = "queued"
  /\ \E task \in {celery[i]} :
       celery' = [celery EXCEPT ![i] =
                    IF response \in 200..299
                    THEN [task EXCEPT !.outcomes = Append(task.outcomes, "success"), !.state = "success"]
                    ELSE Retry(task, IF (2^task.retries) * 60 < 300 THEN (2^task.retries) * 60 ELSE 300, 5)]
  /\ UNCHANGED <<rules, versions, executions, now, ret, archived, stream, last_delivered, pending, batch, daemon, invoked, updates>>

\* acknowledge_event refusing an id that is not pending
AcknowledgeEventStrict(stream_id) ==
  /\ stream_id <= last_delivered
  /\ pending' = xack(pending, stream_id)
  /\ ret' = IF \E p \in pending : p.id = stream_id
            THEN Returned("acknowledge_event", [stream_id |-> stream_id, acknowledged |-> 1])
            ELSE Raised("acknowledge_event", "ValueError: not pending")
  /\ UNCHANGED <<rules, versions, executions, now, archived, stream, last_delivered, batch, daemon, celery, invoked, updates>>

\* a call of EventStreamer.acknowledge_event with the id of an entry that has
\* been delivered; `acknowledged` is the reply of xack, which the method drops
AcknowledgeEvent(stream_id) ==
  /\ stream_id <= last_delivered
  /\ pending' = xack(pending, stream_id)
  /\ ret' = Returned("acknowledge_event",
                     [stream_id |-> stream_id, acknowledged |-> Cardinality({p \in pending : p.id = stream_id})])
  /\ UNCHANGED <<rules, versions, executions, now, archived, stream, last_delivered, batch, daemon, celery, invoked, updates>>

\* redis-py's xclaim(name, groupname, consumername, min_idle_time,
\* message_ids, idle=None, ...): message_ids must be a list of ids and idle an
\* integer; the entries named in message_ids that are pending and have been
\* idle for min_idle_time go to consumername and are returned
xclaim(entries, consumername, min_idle_time, message_ids, idle, idle_time) ==
  IF ~IsList(message_ids)
  THEN Raise("DataError: XCLAIM message_ids must be a non empty list or tuple of message IDs to claim")
  ELSE IF ~IsNone(idle) /\ ~IsInt(idle) THEN Raise("DataError: XCLAIM idle must be an integer")
  ELSE LET ids == SelectSeq(message_ids.list, LAMBDA id : (\E p \in entries : p.id = id) /\ idle_time[id] >= min_idle_time)
       IN Ok([claimed |-> ids,
              entries |-> {p \in entries : ~Occurs(ids, p.id)} \cup {[id |-> ids[i], consumer |-> consumername] : i \in 1..Len(ids)}])

\* a call of EventStreamer.claim_abandoned_events by consumer c, when the
\* entry with id i has been idle for idle_time[i]: the summary form of
\* xpending gives the number of pending entries and their smallest and
\* greatest id, and xclaim gets these two ids as its fifth and sixth argument
ClaimAbandonedEvents(c, min_idle_time, idle_time) ==
  /\ LET ids == {p.id : p \in pending}
         pending_info == [pending |-> Cardinality(ids),
                          min |-> IF ids = {} THEN VNone ELSE VStr(CHOOSE id \in ids : \A other \in ids : id <= other),
                          max |-> IF ids = {} THEN VNone ELSE VStr(CHOOSE id \in ids : \A other \in ids : id >= other)]
     IN IF pending_info.pending > 0
        THEN \E claimed \in {xclaim(pending, c, min_idle_time, pending_info.min, pending_info.max, idle_time)} :
               IF claimed.raised
               THEN pending' = pending /\ ret' = Raised("claim_abandoned_events", claimed.error)
               ELSE pending' = claimed.val.entries /\ ret' = Returned("claim_abandoned_events", [claimed |-> claimed.val.claimed])
        ELSE pending' = pending /\ ret' = Returned("claim_abandoned_events", [claimed |-> <<>>])
  /\ UNCHANGED <<rules, versions, executions, now, archived, stream, last_delivered, batch, daemon, celery, invoked, updates>>
----------------------------------------------------------------------------
(* The inputs of the model: tenants, rule definitions, events              *)

Users == {"system"}

OrderTotalOver100 == [type |-> "order_total", operator |-> "greater_than", value |-> VFlt(100)]
FirstOrder == [type |-> "frequency", event_type |-> "order_created", operator |-> "equals", value |-> VInt(1)]
Holidays == [type |-> "date_range", start_date |-> "2024-12-01", end_date |-> "2024-12-31"]

PointsAdd500 == [type |-> "points", operation |-> "add", amount |-> 500, reason |-> "First order bonus"]
SetTierVip == [type |-> "tier", tier_name |-> "VIP"]
CallWebhook == [type |-> "webhook", url |-> "https://example.com/hook"]

\* test_rule_engine.py, sample_rule_data
FirstOrderBonus ==
  [name |-> "First Order Bonus", description |-> "Award 500 points for first order over $100",
   event_type |-> "order_created", priority |-> 100,
   conditions |-> [operator |-> "and", conditions |->
                    <<[type |-> "order_total", operator |-> "greater_than_or_equal", value |-> VFlt(100)], FirstOrder>>],
   actions |-> <<PointsAdd500>>]
\* its second action has no type tag: it validates as a PointsAction, whose
\* tag has a default, and is stored as given
HolidayRule ==
  [name |-> "Holiday", event_type |-> "order_created", priority |-> 50,
   conditions |-> Holidays, actions |-> <<SetTierVip, [amount |-> 5], PointsAdd500>>]
HolidayHook ==
  [name |-> "Holiday hook", event_type |-> "order_created",
   conditions |-> [operator |-> "not", conditions |-> <<[operator |-> "not", conditions |-> <<Holidays>>]>>],
   actions |-> <<CallWebhook, PointsAdd500>>]
\* rejected definitions
NoActions == [name |-> "Test Rule", event_type |-> "order_created", conditions |-> OrderTotalOver100, actions |-> <<>>]
NoName == [event_type |-> "order_created", conditions |-> OrderTotalOver100, actions |-> <<PointsAdd500>>]
PriorityZero == [name |-> "Low", event_type |-> "order_created", priority |-> 0, conditions |-> Holidays, actions |-> <<SetTierVip>>]


\* test_rule_engine.py, sample_order_event
SampleOrder ==
  [event_type |-> "order_created",
   order |-> [id |-> "12345", total_price |-> VStr(<<"1","5","0",".","0","0">>), currency |-> "USD",
              line_items |-> <<[product |-> [id |-> "prod_123", tags |-> <<"electronics", "featured">>],
                                quantity |-> VInt(2)]>>],
   customer |-> [id |-> VStr(<<"c","u","s","t","_","4","5","6">>), orders_count |-> VInt(3)]]
\* an order without a customer: "customer": null
GuestOrder ==
  [event_type |-> "order_created",
   order |-> [id |-> "12346", total_price |-> VStr(<<"1","5","0",".","0","0">>)],
   customer |-> VNone]

Events == {SampleOrder, GuestOrder}
\* the tenant whose events are processed
EventShops == {"demo.myshopify.com"}

\* definitions for validate_rule and test_rule
PriorityHigh == [name |-> "High", event_type |-> "order_paid", priority |-> 1001, conditions |-> Holidays, actions |-> <<SetTierVip>>]
FlashSale == [name |-> "Flash sale", event_type |-> "flash_sale", conditions |-> Holidays, actions |-> <<CallWebhook>>]
\* a condition of no known kind
LoyaltyLevel == [name |-> "Level", event_type |-> "order_created", conditions |-> [type |-> "loyalty_level", value |-> VInt(3)], actions |-> <<PointsAdd500>>]

\* definitions for validate_rule: the ones above, the rule of
\* test_rule_validation_valid_rule, a definition without name and actions,
\* and a condition without its comparison operator
Definitions ==
  {FirstOrderBonus, HolidayRule, HolidayHook, NoActions, NoName, PriorityZero, PriorityHigh, FlashSale, LoyaltyLevel,
   [name |-> "Test Rule", description |-> "A test rule", event_type |-> "order_created", priority |-> 100,
    conditions |-> OrderTotalOver100, actions |-> <<[type |-> "points", operation |-> "add", amount |-> 500]>>],
   [event_type |-> "order_created", conditions |-> OrderTotalOver100, actions |-> <<>>],
   [name |-> "Big order", event_type |-> "order_created",
    conditions |-> [type |-> "order_total", value |-> VFlt(100)], actions |-> <<PointsAdd500>>]}
ManagerCreateInputs == {HolidayRule, FlashSale, NoActions, PriorityZero}
ManagerUpdateInputs == {HolidayHook, NoName, PriorityHigh}

\* arguments of the evaluation methods
Values ==
  {VStr(<<"s","t","r","i","n","g">>), VStr(<<"1","0">>), VStr(<<"V","I","P">>), VInt(10), VFlt(10), VInt(3),
   VList(<<VStr(<<"V","I","P">>), VStr(<<"g","o","l","d">>)>>), VNone}

\* one leaf or more of every kind, and the leaf of test_invalid_condition_type
InvalidConditionType == [type |-> "invalid_condition_type", operator |-> "equals", value |-> VInt(100)]
Leaves ==
  {OrderTotalOver100,
   [type |-> "order_total", operator |-> "less_than", value |-> VFlt(100)],
   [type |-> "order_item_count", operator |-> "greater_than_or_equal", value |-> VInt(1)],
   [type |-> "order_item_count", operator |-> "less_than", value |-> VInt(5)],
   [type |-> "product", operator |-> "contains", product_tags |-> <<"electronics">>],
   [type |-> "product", operator |-> "not_in", product_ids |-> <<"prod_999">>],
   [type |-> "customer", field |-> "email", operator |-> "contains", value |-> VStr(<<"@","e","x",".","c","o","m">>)],
   [type |-> "customer", field |-> "orders_count", operator |-> "not_equals", value |-> VStr(<<"3">>)],
   [type |-> "date", field |-> "order_date", operator |-> "greater_than", value |-> "2024-01-01"],
   Holidays,
   [type |-> "metafield", namespace |-> "loyalty", key |-> "vip", operator |-> "equals", value |-> "true"],
   [type |-> "tier", operator |-> "in", tier_names |-> <<"Gold">>],
   [type |-> "points", operator |-> "greater_than_or_equal", value |-> VInt(1000)],
   FirstOrder,
   InvalidConditionType,
   LoyaltyLevel.conditions}

\* the sample and guest orders, and events without an order, without the
\* order's total and items, with a null total
LeafEvents ==
  {SampleOrder, GuestOrder,
   [event_type |-> "order_created"],
   [event_type |-> "order_created", order |-> [id |-> "12347"], customer |-> [id |-> VStr(<<"c","u","s","t","_","7">>)]],
   [event_type |-> "order_created", order |-> [id |-> "12348", total_price |-> VNone],
    customer |-> [id |-> VStr(<<"c","u","s","t","_","8">>), orders_count |-> VInt(3)]]}

And(children) == [operator |-> "and", conditions |-> children]
Or(children) == [operator |-> "or", conditions |-> children]
Not(children) == [operator |-> "not", conditions |-> children]
\* with nodes whose second child is a customer condition without operator:
\* it is evaluated as a leaf, and _evaluate_customer raises on the guest order
Trees ==
  {And(<<LoyaltyLevel.conditions, [type |-> "customer", field |-> "orders_count", value |-> VInt(3)]>>),
   And(<<Holidays, [type |-> "customer", field |-> "orders_count", value |-> VInt(3)]>>),
   Or(<<Holidays, [type |-> "customer", field |-> "orders_count", value |-> VInt(3)]>>),
   Or(<<LoyaltyLevel.conditions, [type |-> "customer", field |-> "orders_count", value |-> VInt(3)]>>),
   InvalidConditionType, LoyaltyLevel.conditions, Holidays, FirstOrderBonus.conditions,
   And(<<LoyaltyLevel.conditions, Holidays>>), Or(<<LoyaltyLevel.conditions, Holidays>>),
   Or(<<Holidays, LoyaltyLevel.conditions>>), Not(<<LoyaltyLevel.conditions>>),
   Or(<<InvalidConditionType, Not(<<LoyaltyLevel.conditions>>)>>),
   And(<<>>), Or(<<>>), Not(<<>>), [operator |-> "and"], [operator |-> "or"], [operator |-> "not"],
   And(<<And(<<>>), Not(<<Or(<<>>)>>)>>), Or(<<Or(<<>>), Not(<<>>)>>), Not(<<And(<<>>)>>)}

\* definitions whose date range leaf has no type tag: they validate as a
\* DateRangeCondition, whose tag has a default, and are stored as given
UntypedWindow == [start_date |-> "2024-12-01", end_date |-> "2024-12-31"]
DirectInputs ==
  {[name |-> "Window", event_type |-> "order_created", conditions |-> UntypedWindow, actions |-> <<SetTierVip>>],
   [name |-> "Any window", event_type |-> "order_created", priority |-> 10,
    conditions |-> Or(<<UntypedWindow, Holidays>>), actions |-> <<CallWebhook, SetTierVip>>]}


\* stream entries as xreadgroup returns them, every value a string: an entry
\* with the required fields only, entries with all the fields of to_dict (one
\* that has retries left, one that has none), and one without a timestamp
PlainEntry ==
  [event_id |-> "evt_1", event_type |-> "order_created", shop_domain |-> "demo.myshopify.com",
   customer_id |-> "cust_1", event_data |-> "{\"order\": {\"id\": \"12345\"}}", timestamp |-> "2024-01-15T10:30:00"]
Entries ==
  {PlainEntry,
   [PlainEntry EXCEPT !.event_id = "evt_2"] @@
     [source |-> "api", correlation_id |-> "", retry_count |-> VStr(<<"0">>), max_retries |-> VStr(<<"3">>)],
   [PlainEntry EXCEPT !.event_id = "evt_3", !.timestamp = "2024-01-15"] @@
     [source |-> "webhook", correlation_id |-> "", retry_count |-> VStr(<<"3">>), max_retries |-> VStr(<<"3">>)],
   [event_id |-> "evt_4", event_type |-> "order_created", shop_domain |-> "demo.myshopify.com"]}

\* the answers of a webhook endpoint: a status code, or 0 for a request that
\* got no answer (a network error, a timeout)
Responses == {200, 500, 0}

----------------------------------------------------------------------------
(* The specification                                                       *)

Init ==
  /\ rules = <<>>
  /\ versions = <<>>
  /\ executions = <<>>
  /\ now = 1
  /\ ret = [op |-> "none", raised |-> FALSE]
  /\ archived = {}
  /\ stream = <<>>
  /\ last_delivered = 0
  /\ pending = {}
  /\ batch = [c \in Consumers |-> <<>>]
  /\ daemon = [c \in Consumers |-> [loop |-> "none", running |-> FALSE, shutdown_event |-> FALSE]]
  /\ celery = <<>>
  /\ invoked = <<>>
  /\ updates = [r \in Requests |-> [pc |-> "idle"]]

Next ==
  \/ \E in \in {<<"demo.myshopify.com", d>> : d \in {FirstOrderBonus, HolidayRule, NoActions, NoName, PriorityZero}}
                \cup {<<"other.myshopify.com", HolidayRule>>}, by \in Users : CreateRule(in[1], in[2], by)
  \/ \E id \in 1..MaxRules, d \in {HolidayHook, NoActions}, by \in Users : UpdateRule(id, d, by)
  \/ \E id \in 1..MaxRules : ActivateRule(id)
  \/ \E id \in 1..MaxRules : DeactivateRule(id)
  \/ \E id \in 1..MaxRules : DeleteRule(id)
  \/ \E shop \in EventShops, ev \in Events : ProcessEvent(shop, ev.event_type, ev)

Spec == Init /\ [][Next]_vars

\* the rule manager alone: authoring, validating and testing definitions
ManagerNext ==
  \/ \E d \in ManagerCreateInputs, by \in Users : CreateRule("demo.myshopify.com", d, by)
  \/ \E id \in 1..MaxRules, d \in ManagerUpdateInputs, by \in Users : UpdateRule(id, d, by)
  \/ \E d \in Definitions : ValidateRule(d)
  \/ \E d \in {FirstOrderBonus, HolidayRule, HolidayHook, LoyaltyLevel, NoActions}, ev \in Events : TestRule(d, ev)

ManagerSpec == Init /\ [][ManagerNext]_vars

\* the evaluation methods alone, called on given arguments
EvalNext ==
  \/ \E actual \in Values, operator \in ComparisonOperators, expected \in Values :
       CompareValues(actual, operator, expected)
  \/ \E condition \in Leaves, ev \in LeafEvents : EvaluateSingleCondition(condition, ev)
  \/ \E conditions \in Trees, ev \in Events : EvaluateConditions(conditions, ev)

EvalSpec == Init /\ [][EvalNext]_vars

\* rules written by direct calls of the manager, and the engine on them
DirectNext ==
  \/ \E d \in DirectInputs, by \in Users : CreateRule("demo.myshopify.com", d, by)
  \/ \E id \in 1..MaxRules : ActivateRule(id)
  \/ \E ev \in Events : ProcessEvent("demo.myshopify.com", ev.event_type, ev)
  \/ \E condition \in {UntypedWindow, InvalidConditionType, LoyaltyLevel.conditions}, ev \in Events : EvaluateSingleCondition(condition, ev)
  \/ \E conditions \in {Or(<<UntypedWindow, Holidays>>), And(<<Holidays, UntypedWindow>>), Not(<<UntypedWindow>>)}, ev \in Events : EvaluateConditions(conditions, ev)

DirectSpec == Init /\ [][DirectNext]_vars


\* the processors on the stream and the workers on the tasks they schedule.
\* The event loop of a running processor goes on with its loop and a worker
\* runs every task that is queued; nothing promises that entries are
\* appended, that a processor is started, signalled or killed.
StreamNext ==
  \/ \E fields \in Entries : XAdd(fields)
  \/ \E c \in Consumers : Start(c)
  \/ \E c \in Consumers : ConsumeEvents(c)
  \/ \E c \in Consumers : ProcessEventBatch(c)
  \/ \E i \in 1..MaxStream : ProcessEventTask(i)
  \/ \E stream_id \in 1..MaxStream : AcknowledgeEvent(stream_id)
  \/ \E c \in Consumers : SignalHandler(c)
  \/ \E c \in Consumers : Kill(c)
  \/ \E c \in Consumers, idle_time \in [1..MaxStream -> {0, 300000}] : ClaimAbandonedEvents(c, 300000, idle_time)

StreamSpec ==
  /\ Init
  /\ [][StreamNext]_vars
  /\ \A c \in Consumers : WF_vars(ConsumeEvents(c)) /\ WF_vars(ProcessEventBatch(c))
  /\ \A i \in 1..MaxStream : WF_vars(ProcessEventTask(i))

\* webhook deliveries, enqueued by calls of deliver_webhook and run by the
\* workers: for a webhook action as _execute_webhook_action reports it, and
\* for one as a rule defines it
WebhookNext ==
  \/ \E action \in {[type |-> "webhook", success |-> TRUE], CallWebhook} :
       DeliverWebhook(from_dict(PlainEntry).val, action, [rule_id |-> 1, success |-> TRUE, actions_executed |-> <<action>>])
  \/ \E i \in 1..MaxTasks, response \in Responses : DeliverWebhookTask(i, response)

WebhookSpec ==
  /\ Init
  /\ [][WebhookNext]_vars
  /\ \A i \in 1..MaxTasks : WF_vars(\E response \in Responses : DeliverWebhookTask(i, response))

\* a tenant with webhook rules and the processors on its events
HookNext ==
  \/ \E by \in Users : CreateRule("demo.myshopify.com", HolidayHook, by)
  \/ \E id \in 1..MaxRules : ActivateRule(id)
  \/ XAdd(PlainEntry)
  \/ \E c \in Consumers : Start(c)
  \/ \E c \in Consumers : ConsumeEvents(c)
  \/ \E c \in Consumers : ProcessEventBatch(c)
  \/ \E i \in 1..MaxStream : ProcessEventTask(i)

HookSpec == Init /\ [][HookNext]_vars

\* the rule manager under concurrent update requests
ConcurrentNext ==
  \/ \E by \in Users : CreateRule("demo.myshopify.com", HolidayRule, by)
  \/ \E r \in Requests, id \in 1..MaxRules, d \in {HolidayHook, FlashSale, NoActions}, by \in Users :
       UpdateRuleLoad(r, id, d, by)
  \/ \E r \in Requests : UpdateRuleCommit(r)
  \/ \E r \in Requests : UpdateRuleCreateVersion(r)

ConcurrentSpec == Init /\ [][ConcurrentNext]_vars
----------------------------------------------------------------------------
(* Properties                                                              *)

\* the last operation was a process_event call, and it returned its results
ProcessReturned == ret.op = "process_event" /\ ~ret.raised

\* the ids of the rules in a list of results
ResultIds(results) == [i \in 1..Len(results) |-> results[i].rule_id]

\* the value of a condition tree as the rule language defines it
RECURSIVE RefEval(_, _)
RefEval(c, event_data) ==
  IF "operator" \in DOMAIN c /\ c.operator \in LogicalOperators
  THEN LET subs == Get(c, "conditions", <<>>)
       IN CASE c.operator = "and" -> \A i \in 1..Len(subs) : RefEval(subs[i], event_data)
            [] c.operator = "or" -> \E i \in 1..Len(subs) : RefEval(subs[i], event_data)
            [] c.operator = "not" -> Len(subs) > 0 /\ ~RefEval(subs[1], event_data)
  ELSE LET leaf == _evaluate_single_condition(c, event_data)
       IN ~leaf.raised /\ leaf.val

\* C1: every result that process_event returns carries the reference value of
\* the rule's condition tree for the event (a leaf by its registered strategy,
\* AND all children, OR some child, NOT the negation), and a rule whose
\* conditions hold has had its first action run.
C1_EvaluationIsReference ==
  ProcessReturned =>
    \A i \in 1..Len(ret.results) :
      LET result == ret.results[i]
          rule == rules[result.rule_id]
      IN "conditions_met" \in DOMAIN result =>
           /\ result.conditions_met = RefEval(rule.conditions, ret.event_data)
           /\ result.conditions_met /\ result.success => Len(result.actions_executed) = Len(rule.actions)

\* C2: the sample rule AND(order_total >= 100.0, frequency(order_created) == 1)
\* with the single action points +500, processed for the order of 150.00,
\* gives conditions_met = true and exactly one successful points +500 entry.
C2_SampleRuleAwardsPoints ==
  ProcessReturned /\ ret.event_data = SampleOrder =>
    \A i \in 1..Len(ret.results) :
      LET result == ret.results[i]
          rule == rules[result.rule_id]
      IN rule.conditions = FirstOrderBonus.conditions /\ rule.actions = <<PointsAdd500>> =>
           /\ result.conditions_met
           /\ Len(result.actions_executed) = 1
           /\ result.actions_executed[1].type = "points"
           /\ result.actions_executed[1].operation = "add"
           /\ result.actions_executed[1].amount = 500
           /\ result.actions_executed[1].success

\* the rules the last process_event call had to process, in processing order
\* (process_event changes neither the status nor the order of a rule)
Loaded == _load_active_rules(ret.shop_domain, ret.event_type)

\* the engine finds the conditions of rule id met for the event
ConditionsMet(id, event_data) ==
  LET met == _evaluate_conditions(rules[id].conditions, event_data)
  IN ~met.raised /\ met.val

\* the position of the first action of rule id that raises for the event, 0 if none does
FirstRaising(id, event_data) ==
  LET raising == {k \in 1..Len(rules[id].actions) : _execute_action(rules[id].actions[k], event_data).raised}
  IN IF raising = {} THEN 0 ELSE CHOOSE k \in raising : \A j \in raising : k <= j

\* the outcomes of the actions of rule id before position k
OutcomesBefore(id, event_data, k) ==
  [j \in 1..(k - 1) |-> _execute_action(rules[id].actions[j], event_data).val]

\* the call returned a result of the rule at position p of Loaded, and the rule's
\* processing is in the execution log
Recorded(p) ==
  /\ ~ret.raised
  /\ \E i \in 1..Len(ret.results) : ret.results[i].rule_id = Loaded[p]
  /\ \E e \in 1..Len(executions) :
       executions[e].rule_id = Loaded[p] /\ executions[e].event_data = ret.event_data

\* C3: when the conditions of a processed rule are met and its k-th action
\* raises, the rule's result has success = false, an error message and exactly
\* the outcomes of actions 1..k-1 in order, and every rule after it in the
\* order is still processed and recorded.
C3_FailedActionKeepsPrefix ==
  ret.op = "process_event" =>
    \A p \in 1..Len(Loaded) :
      LET id == Loaded[p]
          k == FirstRaising(id, ret.event_data)
      IN ConditionsMet(id, ret.event_data) /\ k > 0 =>
           /\ ~ret.raised
           /\ \E i \in 1..Len(ret.results) :
                /\ ret.results[i].rule_id = id
                /\ ~ret.results[i].success
                /\ ret.results[i].error # NoError
                /\ ret.results[i].actions_executed = OutcomesBefore(id, ret.event_data, k)
           /\ \A q \in (p + 1)..Len(Loaded) : Recorded(q)

\* the processing of rule id fails: its conditions raise, or they are met and an action raises
ProcessingFails(id, event_data) ==
  \/ _evaluate_conditions(rules[id].conditions, event_data).raised
  \/ ConditionsMet(id, event_data) /\ FirstRaising(id, event_data) > 0

\* C4: a failure of a rule's conditions or actions never leaves process_event
\* as an exception: the call returns, the failing rule has a result with
\* success = false that is in the execution log, and every loaded rule has
\* been processed.
C4_FailuresDoNotEscape ==
  ret.op = "process_event" =>
    \A p \in 1..Len(Loaded) :
      ProcessingFails(Loaded[p], ret.event_data) =>
        /\ ~ret.raised
        /\ \E i \in 1..Len(ret.results) :
             ret.results[i].rule_id = Loaded[p] /\ ~ret.results[i].success
        /\ \E e \in 1..Len(executions) :
             /\ executions[e].rule_id = Loaded[p]
             /\ executions[e].event_data = ret.event_data
             /\ ~executions[e].success
        /\ \A q \in 1..Len(Loaded) : Recorded(q)

\* rule a comes before rule b in ascending (priority, created_at) order
Ascending(a, b) ==
  \/ rules[a].priority < rules[b].priority
  \/ rules[a].priority = rules[b].priority /\ rules[a].created_at < rules[b].created_at

\* the results are one per active rule of the event's shop and type, in ascending order
ResultsInOrder ==
  ProcessReturned =>
    LET ids == ResultIds(ret.results)
    IN /\ \A i, j \in 1..Len(ids) : i < j => Ascending(ids[i], ids[j])
       /\ {ids[i] : i \in 1..Len(ids)} =
            {id \in 1..Len(rules) : /\ rules[id].shop_domain = ret.shop_domain
                                    /\ rules[id].event_type = ret.event_type
                                    /\ rules[id].status = "active"}

\* a call that repeats the previous call returns the rules in the same order
SameOrderOnRepeat ==
  /\ ProcessReturned
  /\ ProcessReturned'
  /\ ret'.shop_domain = ret.shop_domain
  /\ ret'.event_type = ret.event_type
  /\ ret'.event_data = ret.event_data
  => ResultIds(ret'.results) = ResultIds(ret.results)

C6_ArchivedIsTerminal ==
  [][\A id \in 1..Len(rules) : rules[id].status = "archived" => rules'[id].status = "archived"]_vars

\* GET /rules/{rule_id}/versions: the versions of the rule, highest number first
RECURSIVE VersionsDesc(_)
VersionsDesc(S) ==
  IF S = {} THEN <<>>
  ELSE LET top == CHOOSE v \in S : \A w \in S : w.version_number <= v.version_number
       IN <<top>> \o VersionsDesc(S \ {top})

get_rule_versions(rule_id) ==
  VersionsDesc({versions[i] : i \in {j \in 1..Len(versions) : versions[j].rule_id = rule_id}})

\* C7: a rule that has once been archived is in no result that a later
\* process_event call returns, whatever was done to it since, and the
\* version-history query still returns every version recorded for it.
C7_ArchivedNeverLoaded ==
  /\ ProcessReturned =>
       \A i \in 1..Len(ret.results) : ret.results[i].rule_id \notin archived
  /\ \A id \in archived : Len(get_rule_versions(id)) = rules[id].version

\* the edges of the status machine
StatusEdges ==
  {<<"draft", "active">>, <<"active", "paused">>, <<"paused", "active">>}
  \cup {<<s, "archived">> : s \in {"draft", "active", "paused"}}

\* C8: a rule is created in status draft, and every later change of its
\* status is an edge of the status machine: draft to active, active to
\* paused, paused to active, or into archived.
C8_StatusMachineEdges ==
  [][\A id \in 1..Len(rules') :
       IF id > Len(rules)
       THEN rules'[id].status = "draft"
       ELSE \/ rules'[id].status = rules[id].status
            \/ <<rules[id].status, rules'[id].status>> \in StatusEdges]_vars

\* C9: every rule with status active has at least one action.
C9_ActiveRuleHasAction ==
  \A id \in 1..Len(rules) : rules[id].status = "active" => Len(rules[id].actions) >= 1

\* an update that would have emptied the actions of an active rule was rejected
C9_Witness ==
  /\ ret.op = "update_rule"
  /\ ret.raised
  /\ ret.error = "ValueError: Invalid rule"
  /\ \E id \in 1..Len(rules) : rules[id].status = "active" /\ rules[id].version = 2

\* the positions in the table rule_versions of the versions of a rule
VersionRows(rule_id) == {i \in 1..Len(versions) : versions[i].rule_id = rule_id}

\* C10: the version numbers recorded for a rule are exactly 1..version, each
\* once, in the order they were recorded, and the highest one holds the rule's
\* current conditions and actions; create leaves version 1, update adds one.
C10_VersionHistory ==
  \A id \in 1..Len(rules) :
    LET rows == VersionRows(id)
        latest == get_rule_versions(id)[1]
    IN /\ Cardinality(rows) = rules[id].version
       /\ {versions[i].version_number : i \in rows} = 1..rules[id].version
       /\ \A i, j \in rows : i < j => versions[i].version_number < versions[j].version_number
       /\ latest.version_number = rules[id].version
       /\ latest.conditions = rules[id].conditions
       /\ latest.actions = rules[id].actions

\* an update has completed and changed the rule's conditions and actions
C10_Witness ==
  /\ ret.op = "update_rule"
  /\ ~ret.raised
  /\ rules[ret.rule_id].version = 2
  /\ get_rule_versions(ret.rule_id)[2].conditions # rules[ret.rule_id].conditions
  /\ get_rule_versions(ret.rule_id)[2].actions # rules[ret.rule_id].actions


----------------------------------------------------------------------------
(* Properties of validation, testing and deletion                          *)

\* what the rule language asks of a definition, priority aside
HasName(d) == "name" \in DOMAIN d /\ d.name # ""
HasSupportedEventType(d) == "event_type" \in DOMAIN d /\ d.event_type \in EventTypes
HasWellFormedCondition(d) == "conditions" \in DOMAIN d /\ ConditionSchemaOk(d.conditions)
HasActions(d) ==
  /\ "actions" \in DOMAIN d
  /\ Len(d.actions) >= 1
  /\ \A i \in 1..Len(d.actions) : ActionSchemaOk(d.actions[i])
WellFormed(d) == HasName(d) /\ HasSupportedEventType(d) /\ HasWellFormedCondition(d) /\ HasActions(d)

PriorityOutOfRange(d) == "priority" \in DOMAIN d /\ (d.priority < MinPriority \/ d.priority > MaxPriority)

NoActionsError == "Rule must have at least one action"
InSeq(x, s) == \E i \in 1..Len(s) : s[i] = x

\* C11: validate_rule reports valid = false with at least one error for a
\* definition without a name and for one with an empty action list (for the
\* latter the error 'Rule must have at least one action'), and valid = true
\* with no errors for a definition that has a name, a supported event type,
\* a well-formed condition and at least one action.
C11_ValidationVerdicts ==
  ret.op = "validate_rule" =>
    LET d == ret.rule_data
    IN /\ "name" \notin DOMAIN d => ~ret.valid /\ ret.errors # <<>>
       /\ d.actions = <<>> => ~ret.valid /\ ret.errors # <<>>
       /\ d.actions = <<>> /\ HasName(d) /\ HasSupportedEventType(d) /\ HasWellFormedCondition(d)
            => InSeq(NoActionsError, ret.errors)
       /\ WellFormed(d) => ret.valid /\ ret.errors = <<>>

\* C12: a definition that is well formed but for a priority outside
\* [1, 1000] is accepted: validate_rule returns valid = true with a warning
\* and no error, and create_rule and update_rule persist it.
C12_OutOfRangePriorityAccepted ==
  [][/\ (ret'.op = "validate_rule" /\ WellFormed(ret'.rule_data) /\ PriorityOutOfRange(ret'.rule_data))
          => ret'.valid /\ ret'.warnings # <<>> /\ ret'.errors = <<>>
     /\ \A d \in ManagerCreateInputs, by \in Users :
          (WellFormed(d) /\ PriorityOutOfRange(d) /\ CreateRule("demo.myshopify.com", d, by))
            => ~ret'.raised /\ Len(rules') = Len(rules) + 1 /\ rules'[Len(rules')].priority = d.priority
     /\ \A id \in 1..Len(rules), d \in ManagerUpdateInputs, by \in Users :
          (WellFormed(d) /\ PriorityOutOfRange(d) /\ UpdateRule(id, d, by))
            => ~ret'.raised /\ rules'[id].priority = d.priority /\ rules'[id].version = rules[id].version + 1
    ]_vars

\* C13: validate_rule rejects a definition whose event type is not one of
\* the supported event types (valid = false with an error), and no rule in
\* the store has an event type outside that set.
C13_EventTypeSupported ==
  /\ (ret.op = "validate_rule" /\ "event_type" \in DOMAIN ret.rule_data /\ ret.rule_data.event_type \notin EventTypes)
       => ~ret.valid /\ ret.errors # <<>>
  /\ \A id \in 1..Len(rules) : rules[id].event_type \in EventTypes

\* C14: create_rule and update_rule given a definition that validate_rule
\* rejects raise a validation error and change nothing: no rule is inserted
\* or modified, no version number grows and no RuleVersion is added.
C14_RejectedDefinitionChangesNothing ==
  [][/\ \A d \in ManagerCreateInputs, by \in Users :
          (~validate_rule(d).valid /\ CreateRule("demo.myshopify.com", d, by))
            => /\ ret'.raised /\ ret'.error = "ValueError: Invalid rule"
               /\ UNCHANGED <<rules, versions, executions>>
     /\ \A id \in 1..Len(rules), d \in ManagerUpdateInputs, by \in Users :
          (~validate_rule(d).valid /\ UpdateRule(id, d, by))
            => /\ ret'.raised /\ ret'.error = "ValueError: Invalid rule"
               /\ UNCHANGED <<rules, versions, executions>>
     /\ (ret'.op \in {"create_rule", "update_rule"} /\ ret'.raised)
          => UNCHANGED <<rules, versions, executions>>
    ]_vars

\* an update of an updated rule was refused while two rules are stored
C14_Witness ==
  /\ ret.op = "update_rule"
  /\ ret.raised
  /\ ret.error = "ValueError: Invalid rule"
  /\ Len(rules) = 2
  /\ Len(versions) = 3

\* what running a definition against a payload gives: the value of its
\* conditions and the outcomes of its actions
TestRan(d, payload, r) ==
  LET met == _evaluate_conditions(d.conditions, payload)
  IN ~met.raised =>
       /\ ~r.raised
       /\ r.result.conditions_met = met.val
       /\ r.result.actions_executed =
            (IF met.val THEN RunActions(d.actions, payload, <<>>).actions_executed ELSE <<>>)

\* C15: validate_rule and test_rule leave the store as it is (no Rule,
\* RuleVersion or RuleExecution is added or changed, no execution count
\* moves), and test_rule returns the result of running the definition
\* against the payload.
C15_DryRunsAreReadOnly ==
  [][ret'.op \in {"validate_rule", "test_rule"} =>
       /\ UNCHANGED <<rules, versions, executions>>
       /\ ret'.op = "test_rule" => TestRan(ret'.rule_data, ret'.test_payload, ret')
    ]_vars

IsPrefix(s, t) == Len(s) <= Len(t) /\ SubSeq(t, 1, Len(s)) = s

C37_ConcurrentUpdatesKeepVersionsApart ==
  /\ \A i, j \in 1..Len(versions) :
       (versions[i].rule_id = versions[j].rule_id /\ versions[i].version_number = versions[j].version_number) => i = j
  /\ (\A r \in Requests : updates[r].pc = "idle") =>
       \A id \in 1..Len(rules) : rules[id].version = Cardinality({i \in 1..Len(versions) : versions[i].rule_id = id})

----------------------------------------------------------------------------
(* Properties of condition evaluation                                      *)

\* the event has the object k1 and, in it, the field k2
HasField(ev, k1, k2) == k1 \in DOMAIN ev /\ IsDict(ev[k1]) /\ k2 \in DOMAIN ev[k1]

\* the event lacks the field that the leaf refers to
Lacks(leaf, ev) ==
  LET kind == Get(leaf, "type", "None")
  IN CASE kind = "order_total" -> ~HasField(ev, "order", "total_price")
       [] kind \in {"order_item_count", "product"} -> ~HasField(ev, "order", "line_items")
       [] kind = "customer" -> ~HasField(ev, "customer", leaf.field)
       [] OTHER -> DOMAIN ev \cap {"order", "customer"} = {}

\* C17: a leaf of any registered kind evaluated against an event that lacks
\* the field the leaf refers to gives false and does not raise.
C17_MissingFieldIsFalse ==
  (/\ ret.op = "_evaluate_single_condition"
   /\ Get(ret.condition, "type", "None") \in condition_evaluators
   /\ Lacks(ret.condition, ret.event_data))
    => ~ret.raised /\ ret.val = FALSE

TypeClass(v) ==
  IF IsNum(v) THEN "number" ELSE IF IsStr(v) THEN "string" ELSE IF IsList(v) THEN "list" ELSE "none"

\* the operands of a comparison have mismatched types: for in / not_in the
\* expected operand is no list or a list of values of another type than the
\* actual operand; for the other operators the two types differ
Mismatched(actual, operator, expected) ==
  IF operator \in {"in", "not_in"}
  THEN IsList(expected) => \A i \in 1..Len(expected.list) : TypeClass(expected.list[i]) # TypeClass(actual)
  ELSE TypeClass(actual) # TypeClass(expected)

\* the comparison that a leaf makes for the event has mismatched operands:
\* a total that is no number and no numeric string, a customer field of
\* another type than the leaf's value
LeafMismatched(leaf, ev) ==
  LET kind == Get(leaf, "type", "None")
  IN CASE kind = "order_total" ->
            HasField(ev, "order", "total_price") /\ float(ev.order.total_price).raised
       [] kind = "customer" ->
            /\ HasField(ev, "customer", leaf.field)
            /\ Mismatched(ev.customer[leaf.field], leaf.operator, leaf.value)
       [] OTHER -> FALSE

\* C18: a comparison of operands of mismatched types gives false and does
\* not raise, for every comparison operator, in _compare_values and in every
\* leaf evaluator that compares.
C18_MismatchedComparisonIsFalse ==
  /\ (ret.op = "_compare_values" /\ Mismatched(ret.actual, ret.operator, ret.expected))
       => ~ret.raised /\ ret.val = FALSE
  /\ (ret.op = "_evaluate_single_condition" /\ LeafMismatched(ret.condition, ret.event_data))
       => ~ret.raised /\ ret.val = FALSE

\* a node of the condition tree is a logical node or a leaf
IsLogical(c) == "operator" \in DOMAIN c /\ c.operator \in LogicalOperators
Unregistered(c) == ~IsLogical(c) /\ Get(c, "type", "None") \notin condition_evaluators

RECURSIVE HasUnregistered(_)
HasUnregistered(c) ==
  IF IsLogical(c)
  THEN \E i \in 1..Len(Get(c, "conditions", <<>>)) : HasUnregistered(c.conditions[i])
  ELSE Unregistered(c)

\* the tree with every leaf of unregistered kind replaced by an empty OR node
RECURSIVE UnregisteredAsFalse(_)
UnregisteredAsFalse(c) ==
  IF IsLogical(c)
  THEN IF "conditions" \in DOMAIN c
       THEN [c EXCEPT !.conditions = [i \in 1..Len(c.conditions) |-> UnregisteredAsFalse(c.conditions[i])]]
       ELSE c
  ELSE IF Unregistered(c) THEN [operator |-> "or", conditions |-> <<>>] ELSE c

\* C19: a leaf of a kind without a registered evaluator gives false and does
\* not raise; a tree that contains such leaves is evaluated, without raising,
\* to the boolean it has with those leaves false; and a rule with such a
\* tree is processed to a result without error, which is recorded.
C19_UnregisteredKindIsFalse ==
  /\ (ret.op = "_evaluate_single_condition" /\ Unregistered(ret.condition))
       => ~ret.raised /\ ret.val = FALSE
  /\ (ret.op = "_evaluate_conditions" /\ HasUnregistered(ret.conditions))
       => /\ ~ret.raised
          /\ ret.val \in BOOLEAN
          /\ ret.val = _evaluate_conditions(UnregisteredAsFalse(ret.conditions), ret.event_data).val
  /\ ret.op = "process_event" =>
       \A p \in 1..Len(Loaded) :
         HasUnregistered(rules[Loaded[p]].conditions) =>
           /\ ~ret.raised
           /\ \E i \in 1..Len(ret.results) :
                /\ ret.results[i].rule_id = Loaded[p]
                /\ ret.results[i].conditions_met \in BOOLEAN
                /\ ret.results[i].success
                /\ ret.results[i].error = NoError
           /\ \E e \in 1..Len(executions) :
                /\ executions[e].rule_id = Loaded[p]
                /\ executions[e].event_data = ret.event_data
                /\ executions[e].success
                /\ executions[e].error_message = NoError

\* C20: an AND node without children is true, an OR node without children is
\* false, a NOT node without a child is false.
C20_EmptyLogicalNodes ==
  (/\ ret.op = "_evaluate_conditions"
   /\ IsLogical(ret.conditions)
   /\ Get(ret.conditions, "conditions", <<>>) = <<>>)
    => ~ret.raised /\ ret.val = (ret.conditions.operator = "and")

\* a NOT node without a child has been evaluated
C20_Witness ==
  /\ ret.op = "_evaluate_conditions"
  /\ ret.conditions = Not(<<>>)
  /\ ~ret.raised
  /\ ret.val = FALSE

\* the children of the node that end its loop on the event: those that
\* raise, and those whose value is not `continues`
Decisive(node, event_data, continues) ==
  {i \in 1..Len(node.conditions) :
     \E r \in {_evaluate_conditions(node.conditions[i], event_data)} : r.raised \/ r.val # continues}

\* C40: logical nodes evaluate their children left to right and
\* short-circuit: the result of an AND node is that of its first child that
\* is false or raises, the result of an OR node that of its first child that
\* is true or raises, whatever the children after it would do (raise
\* included), and without such a child AND is true and OR is false.
C40_ShortCircuit ==
  (/\ ret.op = "_evaluate_conditions"
   /\ "operator" \in DOMAIN ret.conditions
   /\ "conditions" \in DOMAIN ret.conditions
   /\ ret.conditions.operator \in {"and", "or"})
    => LET continues == (ret.conditions.operator = "and")
           decisive == Decisive(ret.conditions, ret.event_data, continues)
       IN IF decisive = {} THEN ~ret.raised /\ ret.val = continues
          ELSE \E r \in {_evaluate_conditions(ret.conditions.conditions[CHOOSE i \in decisive : \A j \in decisive : i <= j],
                                              ret.event_data)} :
                 IF r.raised THEN ret.raised /\ ret.error = r.error
                 ELSE ~ret.raised /\ ret.val = ~continues

\* an AND node whose first child is false and whose second child raises on
\* the event has been evaluated to false
C40_Witness ==
  /\ ret.op = "_evaluate_conditions"
  /\ "operator" \in DOMAIN ret.conditions
  /\ ret.conditions.operator = "and"
  /\ Len(Get(ret.conditions, "conditions", <<>>)) = 2
  /\ _evaluate_conditions(ret.conditions.conditions[1], ret.event_data) = Ok(FALSE)
  /\ _evaluate_conditions(ret.conditions.conditions[2], ret.event_data).raised
  /\ ~ret.raised
  /\ ret.val = FALSE
----------------------------------------------------------------------------
(* Claims about the event streaming system                                 *)

\* the entry with this id is pending in the consumer group
IsPending(stream_id) == \E p \in pending : p.id = stream_id

\* the entry with this id is pending under the name of consumer c
Owns(c, stream_id) == [id |-> stream_id, consumer |-> c] \in pending

\* C21: every deserialised event that a processor has read is eventually
\* acknowledged, after successful processing or after its retries are
\* exhausted: an entry that is pending under the name of a processor does not
\* stay pending for as long as that processor goes on running.
C21_ReadEventsAreAcknowledged ==
  \A c \in Consumers, stream_id \in 1..MaxStream :
    (Owns(c, stream_id) /\ daemon[c].loop = "processing")
      ~> (~IsPending(stream_id) \/ daemon[c].loop # "processing")

\* C22: an event that a processor had read and not acknowledged when it
\* stopped is eventually claimed by a consumer of the group and processed by
\* it: the entry does not stay pending under the name of a killed processor
\* for as long as some processor of the group is running.
C22_AbandonedEventsAreClaimed ==
  \A c \in Consumers, stream_id \in 1..MaxStream :
    (Owns(c, stream_id) /\ daemon[c].loop = "killed" /\ \E other \in Consumers : daemon[other].loop = "processing")
      ~> (~Owns(c, stream_id) \/ \A other \in Consumers : daemon[other].loop # "processing")

\* min(cap, base * 2^retry_count), the delay of the re-submission schedule
Backoff(base, cap, retry_count) == IF base * 2^retry_count < cap THEN base * 2^retry_count ELSE cap

\* C23: the delay before an event's re-submission is min(300, 60 * 2^n) for
\* retry count n, that is 120, 240, 300, 300, 300 seconds for n = 1..5: a
\* task that retry_event has scheduled has that countdown for the retry
\* count its event carries, and no countdown of a re-submission is above 300
\* or lower than the one before it.
C23_BackoffSchedule ==
  /\ <<Backoff(60, 300, 1), Backoff(60, 300, 2), Backoff(60, 300, 3), Backoff(60, 300, 4), Backoff(60, 300, 5)>>
       = <<120, 240, 300, 300, 300>>
  /\ [](\A i \in 1..Len(celery) :
          celery[i].name = "process_event_task" =>
            /\ celery[i].countdown <= 300
            /\ celery[i].outcomes = <<>> => celery[i].countdown = Backoff(60, 300, celery[i].event_data.retry_count.int))
  /\ [][\A i \in 1..Len(celery) : celery[i].name = "process_event_task" => celery'[i].countdown >= celery[i].countdown]_vars

\* from_dict refuses the entry with this id
Malformed(stream_id) == from_dict(stream[stream_id]).raised

\* the ids of the entries that the step has read from the stream
Read == (last_delivered + 1)..last_delivered'

\* C24: a log entry that fails to deserialise is acknowledged at once and is
\* never handed to the rule engine nor scheduled for retry, and the
\* well-formed entries read in the same batch are delivered for processing:
\* a malformed entry that was read is not pending, is in no batch and in no
\* task and process_single_event is never called on it, and a round of
\* consume_events yields the well-formed entries it has read, in their order.
C24_MalformedEntriesAreDropped ==
  /\ [](\A stream_id \in 1..last_delivered :
          Malformed(stream_id) =>
            /\ ~IsPending(stream_id)
            /\ \A c \in Consumers : \A i \in 1..Len(batch[c]) : batch[c][i].stream_id # stream_id
            /\ \A i \in 1..Len(celery) : celery[i].event_data.event_id # stream[stream_id].event_id
            /\ \A i \in 1..Len(invoked) : invoked[i] # stream[stream_id].event_id)
  /\ [][\A c \in Consumers :
          ConsumeEvents(c) =>
            /\ \A stream_id \in Read :
                 ~Malformed(stream_id) => Owns(c, stream_id)' /\ \E i \in 1..Len(batch'[c]) : batch'[c][i].stream_id = stream_id
            /\ \A i \in 1..Len(batch'[c]) :
                 /\ batch'[c][i].stream_id \in Read
                 /\ batch'[c][i].event_id = stream[batch'[c][i].stream_id].event_id
                 /\ i > 1 => batch'[c][i - 1].stream_id < batch'[c][i].stream_id]_vars

\* a processor has read a malformed entry and a well-formed one in one batch
\* and has called process_single_event on the well-formed one
C24_Witness ==
  /\ Len(stream) = 2
  /\ last_delivered = 2
  /\ Malformed(1)
  /\ ~Malformed(2)
  /\ invoked = <<stream[2].event_id>>
  /\ ~IsPending(1)

\* C25: acknowledging an event that is already acknowledged is a no-op: the
\* call raises nothing, leaves the stream and the group's pending entries as
\* they are, and hands the event to nobody: no batch, no task and no call of
\* process_single_event comes of it.
C25_SecondAcknowledgementIsNoOp ==
  [][\A stream_id \in 1..Len(stream) :
       (AcknowledgeEvent(stream_id) /\ ~IsPending(stream_id)) =>
         /\ ~ret'.raised
         /\ UNCHANGED <<stream, last_delivered, pending, batch, daemon, celery, invoked>>]_vars

\* acknowledge_event was called for an entry that a processor had read and
\* acknowledged after its retries were used up
C25_Witness ==
  /\ ret.op = "acknowledge_event"
  /\ ~ret.raised
  /\ ret.acknowledged = 0
  /\ stream[ret.stream_id].event_id \in {invoked[i] : i \in 1..Len(invoked)}
  /\ celery = <<>>

\* C29: after a shutdown signal the processor pulls no new batch, lets the
\* events in flight finish, and then disconnects: a processor whose shutdown
\* event is set gets no new events to handle, and its loop ends.
C29_ShutdownStopsTheLoop ==
  /\ [][\A c \in Consumers : daemon[c].shutdown_event => Len(batch'[c]) <= Len(batch[c])]_vars
  /\ \A c \in Consumers : daemon[c].shutdown_event ~> daemon[c].loop # "processing"

\* C32: an exception raised while processing one event of a batch never
\* terminates the processing loop: every round of process_event_batch handles
\* the exception for its event only, goes on to the rest of the batch, and
\* leaves the processor running.
C32_FailureKeepsLoopRunning ==
  [][\A c \in Consumers :
       ProcessEventBatch(c) => daemon'[c].loop = "processing" /\ batch'[c] = Tail(batch[c])]_vars

\* the number of calls of process_single_event on the event with this id
Invocations(event_id) == Cardinality({i \in 1..Len(invoked) : invoked[i] = event_id})

\* C33: for every event, the number of times it is handed to the rule
\* engine, counting the first delivery and all re-submissions, never exceeds
\* its max_retries + 1, and the retry_count of a re-submitted event never
\* exceeds its max_retries (events whose id is in the stream once and whose
\* max_retries is an integer).
C33_InvocationsBounded ==
  /\ \A i \in 1..Len(stream) :
       (/\ ~Malformed(i)
        /\ \A j \in 1..Len(stream) : stream[j].event_id = stream[i].event_id => j = i
        /\ IsInt(from_dict(stream[i]).val.max_retries))
         => Invocations(stream[i].event_id) <= from_dict(stream[i]).val.max_retries.int + 1
  /\ \A i \in 1..Len(celery) :
       celery[i].name = "process_event_task" =>
         celery[i].event_data.retry_count.int <= celery[i].event_data.max_retries.int

\* C36: claim_abandoned_events(min_idle_time) transfers to the calling
\* consumer, and returns, every pending entry that has been idle for at
\* least min_idle_time and no other entry: after the call exactly those
\* entries have changed hands, and the call returns them; with nothing
\* pending it returns an empty list and changes nothing.
C36_ClaimsExactlyTheIdleEntries ==
  [][\A c \in Consumers, idle_time \in [1..MaxStream -> {0, 300000}] :
       ClaimAbandonedEvents(c, 300000, idle_time) =>
         LET due == {p.id : p \in {q \in pending : idle_time[q.id] >= 300000}}
         IN /\ ~ret'.raised
            /\ {ret'.claimed[i] : i \in 1..Len(ret'.claimed)} = due
            /\ pending' = {p \in pending : p.id \notin due} \cup {[id |-> id, consumer |-> c] : id \in due}]_vars
----------------------------------------------------------------------------
(* Claims about webhook deliveries                                         *)

\* the tasks that are webhook deliveries
Deliveries == {i \in 1..Len(celery) : celery[i].name = "deliver_webhook_task"}

\* the number of attempts that have been made for the task
Attempts(task) == Len(task.outcomes)

\* C26: a webhook delivery makes at most 5 attempts in all; a failed attempt
\* below that bound is followed by another attempt, and after the last
\* allowed attempt has failed the delivery has failed for good and is never
\* attempted again.
C26_AtMostFiveAttempts ==
  /\ [](\A i \in Deliveries :
          /\ Attempts(celery[i]) <= 5
          /\ (Attempts(celery[i]) < 5 /\ celery[i].state # "success") => celery[i].state = "queued"
          /\ (Attempts(celery[i]) = 5 /\ celery[i].state # "success") => celery[i].state = "failure")
  /\ [][\A i \in Deliveries : celery[i].state = "failure" => celery'[i] = celery[i]]_vars

\* C27: the waiting time between two consecutive attempts of one webhook
\* delivery grows multiplicatively from the base, never gets shorter from one
\* attempt to the next and is never above the cap of 60 seconds.
C27_WebhookBackoffCapped ==
  /\ [](\A i \in Deliveries : celery[i].countdown <= 60)
  /\ [][\A i \in Deliveries :
          Attempts(celery'[i]) > Attempts(celery[i]) /\ celery'[i].state = "queued" =>
            /\ celery'[i].countdown >= celery[i].countdown
            /\ Attempts(celery[i]) > 0 => celery'[i].countdown \in {2 * celery[i].countdown, 60}]_vars

\* the outcomes of three failed attempts followed by a delivered one
ThreeFailuresThenSuccess == <<"failed", "failed", "failed", "success">>

\* C28: three failed attempts followed by a successful fourth attempt give
\* exactly one successful outcome of the delivery, after which no attempt is
\* made for it: no delivery has an attempt after a successful one, a
\* delivery whose fourth attempt succeeded after three failures is done with
\* that single success, and a delivery that is done is never run again.
C28_OneSuccessThenNoAttempt ==
  /\ [](\A i \in Deliveries :
          /\ \A k \in 1..Attempts(celery[i]) : celery[i].outcomes[k] = "success" => k = Attempts(celery[i])
          /\ celery[i].state = "success" <=>
               (Attempts(celery[i]) > 0 /\ celery[i].outcomes[Attempts(celery[i])] = "success")
          /\ (Attempts(celery[i]) >= 4 /\ SubSeq(celery[i].outcomes, 1, 4) = ThreeFailuresThenSuccess) =>
               celery[i].outcomes = ThreeFailuresThenSuccess /\ celery[i].state = "success")
  /\ [][\A i \in Deliveries : celery[i].state = "success" => celery'[i] = celery[i]]_vars

\* a delivery has succeeded at its fourth attempt, after three failures
C28_Witness ==
  \E i \in Deliveries : celery[i].outcomes = ThreeFailuresThenSuccess /\ celery[i].state = "success"

\* C34: a webhook action that the rule engine records as executed leads to
\* one delivery task that carries the url, method and headers configured in
\* the rule's webhook action: a task enqueued for the record that
\* _execute_webhook_action returns for the action CallWebhook has the url of
\* CallWebhook, and its method and headers (POST and none when the action
\* configures none).
C34_TaskCarriesConfiguredRequest ==
  \A i \in Deliveries :
    celery[i].data.action = _execute_webhook_action(CallWebhook, SampleOrder).val =>
      /\ celery[i].url = CallWebhook.url
      /\ celery[i].method = Get(CallWebhook, "method", "POST")
      /\ celery[i].headers = Get(CallWebhook, "headers", EmptyDict)

\* the tenant of the event has an active rule for its event type with a
\* webhook action
HasHook(event) ==
  \E id \in 1..Len(rules) :
    /\ rules[id].shop_domain = event.shop_domain
    /\ rules[id].event_type = event.event_type
    /\ rules[id].status = "active"
    /\ \E i \in 1..Len(rules[id].actions) : rules[id].actions[i].type = "webhook"

\* C35: processing and acknowledging an event never waits for the outcome of
\* a webhook delivery: the round of process_event_batch that handles an
\* event of a tenant with an active webhook rule hands the delivery to a
\* task, acknowledges the event whatever becomes of the delivery, and leaves
\* the processor running for the later events.
C35_HookEventIsAcknowledged ==
  [][\A c \in Consumers :
       (ProcessEventBatch(c) /\ HasHook(Head(batch[c]))) =>
         /\ \A p \in pending' : p.id # Head(batch[c]).stream_id
         /\ \E i \in 1..Len(celery') : celery'[i].name = "deliver_webhook_task"
         /\ daemon'[c].loop = "processing"]_vars
----------------------------------------------------------------------------
(* Tenant isolation of process_event                                       *)

\* the rules of tenant shop_domain with the event type, active before the call
OwnActive(shop_domain, event_type) ==
  {id \in 1..Len(rules) : /\ rules[id].shop_domain = shop_domain
                          /\ rules[id].event_type = event_type
                          /\ rules[id].status = "active"}

\* C30: process_event for tenant T and event type E evaluates and executes
\* only rules of T with event type E that are active when they are loaded:
\* every result it returns, every rule row it changes and every RuleExecution
\* it writes belongs to such a rule, every RuleExecution it writes carries
\* tenant T, and the rows and audit records that exist before the call, those
\* of other tenants included, are left as they are.
C30_ProcessEventStaysInTenant ==
  [][\A shop_domain \in EventShops, ev \in Events :
       ProcessEvent(shop_domain, ev.event_type, ev) =>
         /\ Len(rules') = Len(rules)
         /\ \A id \in 1..Len(rules) : rules'[id] # rules[id] => id \in OwnActive(shop_domain, ev.event_type)
         /\ Len(executions') >= Len(executions)
         /\ SubSeq(executions', 1, Len(executions)) = executions
         /\ \A i \in (Len(executions) + 1)..Len(executions') :
              /\ executions'[i].shop_domain = shop_domain
              /\ executions'[i].event_type = ev.event_type
              /\ executions'[i].rule_id \in OwnActive(shop_domain, ev.event_type)
         /\ ~ret'.raised =>
              \A i \in 1..Len(ret'.results) : ret'.results[i].rule_id \in OwnActive(shop_domain, ev.event_type)]_vars

\* process_event has run a rule of its tenant and written its audit record
\* while another tenant has an active rule of the same event type, which is
\* still unexecuted
C30_Witness ==
  /\ ret.op = "process_event"
  /\ ~ret.raised
  /\ Len(ret.results) >= 1
  /\ executions # <<>>
  /\ \A i \in 1..Len(executions) : executions[i].shop_domain = ret.shop_domain
  /\ \E id \in 1..Len(rules) :
       /\ rules[id].shop_domain # ret.shop_domain
       /\ rules[id].event_type = ret.event_type
       /\ rules[id].status = "active"
       /\ rules[id].execution_count = 0
----------------------------------------------------------------------------
(* The audit log: RuleExecution rows and execution counts                  *)

\* C31: RuleExecution inserts are idempotent per (event, rule): when the
\* same event is processed again, no second RuleExecution is written for a
\* rule that already has one for that event; the audit log never holds two
\* rows of one rule for one event payload.
C31_OneExecutionPerEventAndRule ==
  \A i, j \in 1..Len(executions) :
    (executions[i].rule_id = executions[j].rule_id /\ executions[i].event_data = executions[j].event_data) => i = j

\* the RuleExecutions of rule id that the step appends, by their
\* conditions_met flag
Appended(id, conditions_met) ==
  {i \in (Len(executions) + 1)..Len(executions') :
     executions'[i].rule_id = id /\ executions'[i].conditions_met = conditions_met}

\* C38: each processing of a rule whose conditions are met raises the rule's
\* execution_count by exactly one and sets last_executed_at, whether or not
\* its actions succeed, and one whose conditions are not met leaves both
\* unchanged: a completed process_event call raises each rule's
\* execution_count by the number of RuleExecutions with conditions_met = true
\* that it writes for the rule, which is at most one, and sets
\* last_executed_at to the time of the call exactly for those rules; no other
\* operation changes a count or the audit log.
C38_CountFollowsMetConditions ==
  /\ [][\A shop_domain \in EventShops, ev \in Events :
          (ProcessEvent(shop_domain, ev.event_type, ev) /\ ~ret'.raised) =>
            \A id \in 1..Len(rules) :
              /\ Cardinality(Appended(id, TRUE)) <= 1
              /\ rules'[id].execution_count = rules[id].execution_count + Cardinality(Appended(id, TRUE))
              /\ rules'[id].last_executed_at = IF Appended(id, TRUE) # {} THEN now ELSE rules[id].last_executed_at]_vars
  /\ [][(executions' # executions \/ \E id \in 1..Len(rules) : rules'[id].execution_count # rules[id].execution_count)
          => ret'.op = "process_event"]_vars

\* a rule has been processed with its conditions met and a failing action,
\* and its execution_count is the number of its records with conditions met
C38_Witness ==
  \E id \in 1..Len(rules) :
    /\ rules[id].execution_count >= 1
    /\ rules[id].execution_count
         = Cardinality({i \in 1..Len(executions) : executions[i].rule_id = id /\ executions[i].conditions_met})
    /\ rules[id].last_executed_at # Null
    /\ \E i \in 1..Len(executions) :
         executions[i].rule_id = id /\ executions[i].conditions_met /\ ~executions[i].success

\* C39: each completed process_event call writes exactly one RuleExecution
\* per active rule it loaded, rules whose conditions were not met included;
\* each record stores the payload of the event and the conditions_met flag,
\* the executed-action outcomes, the success flag and the error of the
\* result returned for its rule (a result that has no conditions_met flag is
\* recorded as not met); there are as many results as records written.
C39_OneRecordPerLoadedRule ==
  [][\A shop_domain \in EventShops, ev \in Events :
       (ProcessEvent(shop_domain, ev.event_type, ev) /\ ~ret'.raised) =>
         LET written == SubSeq(executions', Len(executions) + 1, Len(executions'))
             results == ret'.results
         IN /\ Len(results) = Len(written)
            /\ Len(written) = Cardinality(OwnActive(shop_domain, ev.event_type))
            /\ \A id \in OwnActive(shop_domain, ev.event_type) :
                 Cardinality({i \in 1..Len(written) : written[i].rule_id = id}) = 1
            /\ \A i \in 1..Len(written) :
                 /\ written[i].rule_id = results[i].rule_id
                 /\ written[i].event_data = ev
                 /\ written[i].conditions_met = ("conditions_met" \in DOMAIN results[i] /\ results[i].conditions_met)
                 /\ written[i].actions_executed = results[i].actions_executed
                 /\ written[i].success = results[i].success
                 /\ written[i].error_message = results[i].error]_vars

\* a completed call has returned two results, one for a rule whose
\* conditions were met and one for a rule whose conditions were not, and the
\* audit log holds the two records
C39_Witness ==
  /\ ret.op = "process_event"
  /\ ~ret.raised
  /\ Len(ret.results) = 2
  /\ Len(executions) = 2
  /\ \E i, j \in 1..2 :
       /\ ret.results[i].conditions_met /\ executions[i].conditions_met
       /\ ~ret.results[j].conditions_met /\ ~executions[j].conditions_met
       /\ executions[i].rule_id # executions[j].rule_id
====
